---- MODULE Spec2Model ----
(***************************************************************************)
(* A model of the visa crate: the completion-code classifier (error.rs),   *)
(* the Session I/O engine (session.rs), the ResourceManager                *)
(* (resource_manager.rs) and the value types of utility.rs.  The transport *)
(* (the VISA library behind visa_bindings) is the environment: every call  *)
(* answers with a raw status chosen nondeterministically.                  *)
(***************************************************************************)
EXTENDS Integers, Sequences, FiniteSets, TLC

VARIABLES
  raw,          \* classifier: the raw ViStatus handed to try_from
  classified,   \* classifier: the outcome of try_from, CCNone before the call
  pc,           \* session: "idle" between calls, "reading" inside read's loop
  op,           \* session: the method being (or last) invoked
  command,      \* session: the bytes of the command given to write / query
  calls,        \* session: transport calls issued by the current invocation
  buffer,       \* read: the chunk buffer ([0u8; 4096] in the source)
  output,       \* read: the accumulating output Vec<u8>
  chunks,       \* read: what the transport delivered, chunk by chunk
  result,       \* session: what the last invocation returned
  rm,           \* lifecycle: the ResourceManager, [state, value]
  sess,         \* lifecycle: the Sessions open_session was asked for
  opens,        \* lifecycle: the viOpenDefaultRM / viOpen calls issued
  closes,       \* lifecycle: per handle, the viClose calls issued on it
  logged,       \* lifecycle: what the Drop impls logged
  lifeResult,   \* lifecycle: what new / open_session last returned
  openArgs,     \* open_session: the arguments and the status of the last call
  fpc,          \* find_resources: "idle", "next" inside the loop, "done"
  fcount,       \* find_resources: the count viFindRsrc stored
  fdesc,        \* find_resources: the description buffer
  fcalls,       \* find_resources: the transport calls issued, in order
  resources,    \* find_resources: the names pushed so far
  fresult,      \* find_resources: what the call returned
  flists,       \* transport: the find lists handed out and not closed
  fexpr,        \* find_resources: the expression it was given
  vfn,          \* value types: the conversion that was applied
  vin,          \* value types: its input
  vout,         \* value types: its result
  mcmd,         \* mandatory commands: the method being (or last) invoked
  marg,         \* mandatory commands: the register given to *ESE / *SRE
  parsed,       \* mandatory commands: what the method returned
  tmoAttr,      \* transport: VI_ATTR_TMO_VALUE of the session, as limbs
  tmoBefore,    \* set_timeout: tmoAttr when the method was called
  tmoArg,       \* set_timeout: the Timeout it was given
  flushArg,     \* flush: the FlushMode it was given, as a set of flag names
  tpc,          \* shared session: per caller, "idle", "reading" or "done"
  top,          \* shared session: per caller, the method being (or last) invoked
  tcmd,         \* shared session: per caller, the command given to write / query
  tbuf,         \* shared session: per caller, read's chunk buffer
  tout,         \* shared session: per caller, read's output Vec<u8>
  tres,         \* shared session: per caller, what the invocation returned
  wire          \* shared session: the transport calls on the handle, in order

ioVars == <<pc, op, command, calls, buffer, output, chunks, result>>
clsVars == <<raw, classified>>
lifeVars == <<rm, sess, opens, closes, logged, lifeResult>>
findVars == <<fpc, fcount, fdesc, fcalls, resources, fresult, flists, fexpr>>
valVars == <<vfn, vin, vout>>
mandVars == <<mcmd, marg, parsed>>
tmoVars == <<tmoAttr, tmoBefore, tmoArg>>
shVars == <<tpc, top, tcmd, tbuf, tout, tres, wire>>
\* What the session, classifier and lifecycle specifications leave alone.
extVars == <<openArgs, findVars, valVars, mandVars, tmoVars, flushArg, shVars>>
vars ==
  <<raw, classified, pc, op, command, calls, buffer, output, chunks, result,
    rm, sess, opens, closes, logged, lifeResult, openArgs,
    fpc, fcount, fdesc, fcalls, resources, fresult, flists, fexpr, vfn, vin, vout,
    mcmd, marg, parsed, tmoAttr, tmoBefore, tmoArg, flushArg,
    tpc, top, tcmd, tbuf, tout, tres, wire>>

(***************************************************************************)
(* error.rs: the classifier.                                               *)
(***************************************************************************)

\* The numeric values of the visa_bindings status constants (VISA's visa.h):
\* VI_ERROR_x = 0x80000000 + 0x3FFF00nn as a signed 32-bit integer,
\* VI_SUCCESS_x / VI_WARN_x = 0x3FFF00nn.
ViConst ==
  [ VI_ERROR_SYSTEM_ERROR |-> -1073807360,
    VI_ERROR_INV_OBJECT |-> -1073807346,
    VI_ERROR_RSRC_LOCKED |-> -1073807345,
    VI_ERROR_INV_EXPR |-> -1073807344,
    VI_ERROR_RSRC_NFOUND |-> -1073807343,
    VI_ERROR_INV_RSRC_NAME |-> -1073807342,
    VI_ERROR_INV_ACC_MODE |-> -1073807341,
    VI_ERROR_TMO |-> -1073807339,
    VI_ERROR_CLOSING_FAILED |-> -1073807338,
    VI_ERROR_INV_DEGREE |-> -1073807333,
    VI_ERROR_INV_JOB_ID |-> -1073807332,
    VI_ERROR_NSUP_ATTR |-> -1073807331,
    VI_ERROR_NSUP_ATTR_STATE |-> -1073807330,
    VI_ERROR_ATTR_READONLY |-> -1073807329,
    VI_ERROR_INV_LOCK_TYPE |-> -1073807328,
    VI_ERROR_INV_ACCESS_KEY |-> -1073807327,
    VI_ERROR_INV_EVENT |-> -1073807322,
    VI_ERROR_INV_MECH |-> -1073807321,
    VI_ERROR_HNDLR_NINSTALLED |-> -1073807320,
    VI_ERROR_INV_HNDLR_REF |-> -1073807319,
    VI_ERROR_INV_CONTEXT |-> -1073807318,
    VI_ERROR_QUEUE_OVERFLOW |-> -1073807315,
    VI_ERROR_NENABLED |-> -1073807313,
    VI_ERROR_ABORT |-> -1073807312,
    VI_ERROR_RAW_WR_PROT_VIOL |-> -1073807308,
    VI_ERROR_RAW_RD_PROT_VIOL |-> -1073807307,
    VI_ERROR_OUTP_PROT_VIOL |-> -1073807306,
    VI_ERROR_INP_PROT_VIOL |-> -1073807305,
    VI_ERROR_BERR |-> -1073807304,
    VI_ERROR_IN_PROGRESS |-> -1073807303,
    VI_ERROR_INV_SETUP |-> -1073807302,
    VI_ERROR_QUEUE_ERROR |-> -1073807301,
    VI_ERROR_ALLOC |-> -1073807300,
    VI_ERROR_INV_MASK |-> -1073807299,
    VI_ERROR_IO |-> -1073807298,
    VI_ERROR_INV_FMT |-> -1073807297,
    VI_ERROR_NSUP_FMT |-> -1073807295,
    VI_ERROR_LINE_IN_USE |-> -1073807294,
    VI_ERROR_NSUP_MODE |-> -1073807290,
    VI_ERROR_SRQ_NOCCURRED |-> -1073807286,
    VI_ERROR_INV_SPACE |-> -1073807282,
    VI_ERROR_INV_OFFSET |-> -1073807279,
    VI_ERROR_INV_WIDTH |-> -1073807278,
    VI_ERROR_NSUP_OFFSET |-> -1073807276,
    VI_ERROR_NSUP_VAR_WIDTH |-> -1073807275,
    VI_ERROR_WINDOW_NMAPPED |-> -1073807273,
    VI_ERROR_RESP_PENDING |-> -1073807271,
    VI_ERROR_NLISTENERS |-> -1073807265,
    VI_ERROR_NCIC |-> -1073807264,
    VI_ERROR_NSYS_CNTLR |-> -1073807263,
    VI_ERROR_NSUP_OPER |-> -1073807257,
    VI_ERROR_INTR_PENDING |-> -1073807256,
    VI_ERROR_ASRL_PARITY |-> -1073807254,
    VI_ERROR_ASRL_FRAMING |-> -1073807253,
    VI_ERROR_ASRL_OVERRUN |-> -1073807252,
    VI_ERROR_TRIG_NMAPPED |-> -1073807250,
    VI_ERROR_NSUP_ALIGN_OFFSET |-> -1073807248,
    VI_ERROR_USER_BUF |-> -1073807247,
    VI_ERROR_RSRC_BUSY |-> -1073807246,
    VI_ERROR_NSUP_WIDTH |-> -1073807242,
    VI_ERROR_INV_PARAMETER |-> -1073807240,
    VI_ERROR_INV_PROT |-> -1073807239,
    VI_ERROR_INV_SIZE |-> -1073807237,
    VI_ERROR_WINDOW_MAPPED |-> -1073807232,
    VI_ERROR_NIMPL_OPER |-> -1073807231,
    VI_ERROR_INV_LENGTH |-> -1073807229,
    VI_ERROR_INV_MODE |-> -1073807215,
    VI_ERROR_SESN_NLOCKED |-> -1073807204,
    VI_ERROR_MEM_NSHARED |-> -1073807203,
    VI_ERROR_LIBRARY_NFOUND |-> -1073807202,
    VI_ERROR_NSUP_INTR |-> -1073807201,
    VI_ERROR_INV_LINE |-> -1073807200,
    VI_ERROR_FILE_ACCESS |-> -1073807199,
    VI_ERROR_FILE_IO |-> -1073807198,
    VI_ERROR_NSUP_LINE |-> -1073807197,
    VI_ERROR_NSUP_MECH |-> -1073807196,
    VI_ERROR_INTF_NUM_NCONFIG |-> -1073807195,
    VI_ERROR_CONN_LOST |-> -1073807194,
    VI_ERROR_MACHINE_NAVAIL |-> -1073807193,
    VI_ERROR_NPERMISSION |-> -1073807192,
    VI_SUCCESS |-> 0,
    VI_SUCCESS_EVENT_EN |-> 1073676290,
    VI_SUCCESS_EVENT_DIS |-> 1073676291,
    VI_SUCCESS_QUEUE_EMPTY |-> 1073676292,
    VI_SUCCESS_TERM_CHAR |-> 1073676293,
    VI_SUCCESS_MAX_CNT |-> 1073676294,
    VI_SUCCESS_DEV_NPRESENT |-> 1073676413,
    VI_SUCCESS_TRIG_MAPPED |-> 1073676414,
    VI_SUCCESS_QUEUE_NEMPTY |-> 1073676416,
    VI_SUCCESS_NCHAIN |-> 1073676440,
    VI_SUCCESS_NESTED_SHARED |-> 1073676441,
    VI_SUCCESS_NESTED_EXCLUSIVE |-> 1073676442,
    VI_SUCCESS_SYNC |-> 1073676443,
    VI_WARN_QUEUE_OVERFLOW |-> 1073676300,
    VI_WARN_CONFIG_NLOADED |-> 1073676407,
    VI_WARN_NULL_OBJECT |-> 1073676418,
    VI_WARN_NSUP_ATTR_STATE |-> 1073676420,
    VI_WARN_UNKNOWN_STATUS |-> 1073676421,
    VI_WARN_NSUP_BUF |-> 1073676424,
    VI_WARN_EXT_FUNC_NIMPL |-> 1073676457 ]

\* A classified status: Ok(CompletionCode) or Err(Error).  code is the payload
\* of InvalidErrorCode / InvalidCompletionCode.
CCOk(c) == [ok |-> TRUE, cc |-> c, err |-> "", code |-> 0]
CCErr(e, n) == [ok |-> FALSE, cc |-> "", err |-> e, code |-> n]
CCNone == [ok |-> FALSE, cc |-> "", err |-> "", code |-> 0]

\* The arms of `match value`, in source order: pattern constant, Error variant.
FatalTable ==
  << <<ViConst.VI_ERROR_SYSTEM_ERROR, "System">>,
     <<ViConst.VI_ERROR_INV_OBJECT, "InvalidObject">>,
     <<ViConst.VI_ERROR_RSRC_LOCKED, "ResourceLocked">>,
     <<ViConst.VI_ERROR_INV_EXPR, "InvalidExpression">>,
     <<ViConst.VI_ERROR_RSRC_NFOUND, "ResourceNotFound">>,
     <<ViConst.VI_ERROR_INV_RSRC_NAME, "InvalidResourceName">>,
     <<ViConst.VI_ERROR_INV_ACC_MODE, "InvalidAccessMode">>,
     <<ViConst.VI_ERROR_TMO, "Timeout">>,
     <<ViConst.VI_ERROR_CLOSING_FAILED, "ClosingFailed">>,
     <<ViConst.VI_ERROR_INV_DEGREE, "InvalidDegree">>,
     <<ViConst.VI_ERROR_INV_JOB_ID, "InvalidJobId">>,
     <<ViConst.VI_ERROR_NSUP_ATTR, "AttributeNotSupported">>,
     <<ViConst.VI_ERROR_NSUP_ATTR_STATE, "AttributeStateNotSupported">>,
     <<ViConst.VI_ERROR_ATTR_READONLY, "AttibuteReadOnly">>,
     <<ViConst.VI_ERROR_INV_LOCK_TYPE, "InvalidLockType">>,
     <<ViConst.VI_ERROR_INV_ACCESS_KEY, "InvalidAccessKey">>,
     <<ViConst.VI_ERROR_INV_EVENT, "InvalidEvent">>,
     <<ViConst.VI_ERROR_INV_MECH, "InvalidMechanism">>,
     <<ViConst.VI_ERROR_HNDLR_NINSTALLED, "HandlerNotInstalled">>,
     <<ViConst.VI_ERROR_INV_HNDLR_REF, "InvalidHandlerReference">>,
     <<ViConst.VI_ERROR_INV_CONTEXT, "InvalidContext">>,
     <<ViConst.VI_ERROR_QUEUE_OVERFLOW, "QueueOverflow">>,
     <<ViConst.VI_ERROR_NENABLED, "NotEnabled">>,
     <<ViConst.VI_ERROR_ABORT, "Abort">>,
     <<ViConst.VI_ERROR_RAW_WR_PROT_VIOL, "RawWriteProtocolViolation">>,
     <<ViConst.VI_ERROR_RAW_RD_PROT_VIOL, "RawReadProtocolViolation">>,
     <<ViConst.VI_ERROR_OUTP_PROT_VIOL, "OutputProtocolViolation">>,
     <<ViConst.VI_ERROR_INP_PROT_VIOL, "InputProtocolViolation">>,
     <<ViConst.VI_ERROR_BERR, "Bus">>,
     <<ViConst.VI_ERROR_IN_PROGRESS, "InProgress">>,
     <<ViConst.VI_ERROR_INV_SETUP, "InvalidSetup">>,
     <<ViConst.VI_ERROR_QUEUE_ERROR, "Queue">>,
     <<ViConst.VI_ERROR_ALLOC, "Allocation">>,
     <<ViConst.VI_ERROR_INV_MASK, "InvalidMask">>,
     <<ViConst.VI_ERROR_IO, "Io">>,
     <<ViConst.VI_ERROR_INV_FMT, "InvalidFormat">>,
     <<ViConst.VI_ERROR_NSUP_FMT, "FormatNotSupported">>,
     <<ViConst.VI_ERROR_LINE_IN_USE, "TriggerLineInUse">>,
     <<ViConst.VI_ERROR_NSUP_MODE, "ModeNotSupported">>,
     <<ViConst.VI_ERROR_SRQ_NOCCURRED, "ServiceRequestNotReceived">>,
     <<ViConst.VI_ERROR_INV_SPACE, "InvalidAddressSpace">>,
     <<ViConst.VI_ERROR_INV_OFFSET, "InvalidOffset">>,
     <<ViConst.VI_ERROR_INV_WIDTH, "InvalidWidth">>,
     <<ViConst.VI_ERROR_NSUP_OFFSET, "OffsetNotAccessible">>,
     <<ViConst.VI_ERROR_NSUP_VAR_WIDTH, "VariableWidthNotSupported">>,
     <<ViConst.VI_ERROR_WINDOW_NMAPPED, "SessionNotMapped">>,
     <<ViConst.VI_ERROR_RESP_PENDING, "ResponsePending">>,
     <<ViConst.VI_ERROR_NLISTENERS, "NoListeners">>,
     <<ViConst.VI_ERROR_NCIC, "NotControllerInCharge">>,
     <<ViConst.VI_ERROR_NSYS_CNTLR, "NotSystemController">>,
     <<ViConst.VI_ERROR_NSUP_OPER, "OperationNotSupported">>,
     <<ViConst.VI_ERROR_INTR_PENDING, "InterruptPending">>,
     <<ViConst.VI_ERROR_ASRL_PARITY, "AsrlParity">>,
     <<ViConst.VI_ERROR_ASRL_FRAMING, "AsrlFraming">>,
     <<ViConst.VI_ERROR_ASRL_OVERRUN, "AsrlOverrun">>,
     <<ViConst.VI_ERROR_TRIG_NMAPPED, "TriggerNotMapped">>,
     <<ViConst.VI_ERROR_NSUP_ALIGN_OFFSET, "OffsetNotAligned">>,
     <<ViConst.VI_ERROR_USER_BUF, "UserBuffer">>,
     <<ViConst.VI_ERROR_RSRC_BUSY, "ResourceBusy">>,
     <<ViConst.VI_ERROR_NSUP_WIDTH, "WidthNotSupported">>,
     <<ViConst.VI_ERROR_INV_PARAMETER, "InvalidParameter">>,
     <<ViConst.VI_ERROR_INV_PROT, "InvalidProtocol">>,
     <<ViConst.VI_ERROR_INV_SIZE, "InvalidSize">>,
     <<ViConst.VI_ERROR_WINDOW_MAPPED, "WindowMapped">>,
     <<ViConst.VI_ERROR_NIMPL_OPER, "OperationNotImplemented">>,
     <<ViConst.VI_ERROR_INV_LENGTH, "InvalidLength">>,
     <<ViConst.VI_ERROR_INV_MODE, "InvalidMode">>,
     <<ViConst.VI_ERROR_SESN_NLOCKED, "SessionNotLocked">>,
     <<ViConst.VI_ERROR_MEM_NSHARED, "MemoryNotShared">>,
     <<ViConst.VI_ERROR_LIBRARY_NFOUND, "LibraryNotFound">>,
     <<ViConst.VI_ERROR_NSUP_INTR, "InterruptNotSupported">>,
     <<ViConst.VI_ERROR_INV_LINE, "InvalidLine">>,
     <<ViConst.VI_ERROR_FILE_ACCESS, "FileAccess">>,
     <<ViConst.VI_ERROR_FILE_IO, "FileIo">>,
     <<ViConst.VI_ERROR_NSUP_LINE, "LineNotSupported">>,
     <<ViConst.VI_ERROR_NSUP_MECH, "MechanismNotSupported">>,
     <<ViConst.VI_ERROR_INTF_NUM_NCONFIG, "InterfaceNumberNotConfigured">>,
     <<ViConst.VI_ERROR_CONN_LOST, "ConnectionLost">>,
     <<ViConst.VI_ERROR_MACHINE_NAVAIL, "MachineNotAvailable">>,
     <<ViConst.VI_ERROR_NPERMISSION, "NoPermission">> >>

\* The arms of `match other as u32`, in source order.
CompletionTable ==
  << <<ViConst.VI_SUCCESS, "Success">>,
     <<ViConst.VI_SUCCESS_EVENT_EN, "EventEnabled">>,
     <<ViConst.VI_SUCCESS_EVENT_DIS, "EventDisabled">>,
     <<ViConst.VI_SUCCESS_QUEUE_EMPTY, "QueueEmpty">>,
     <<ViConst.VI_SUCCESS_TERM_CHAR, "TerminationCharacterRead">>,
     <<ViConst.VI_SUCCESS_MAX_CNT, "MaximumCount">>,
     <<ViConst.VI_SUCCESS_DEV_NPRESENT, "DeviceNotPresent">>,
     <<ViConst.VI_SUCCESS_TRIG_MAPPED, "TrigPathMapped">>,
     <<ViConst.VI_SUCCESS_QUEUE_NEMPTY, "QueueNotEmpty">>,
     <<ViConst.VI_SUCCESS_NCHAIN, "DoNotInvokeHandler">>,
     <<ViConst.VI_SUCCESS_NESTED_SHARED, "NestedSharedLock">>,
     <<ViConst.VI_SUCCESS_NESTED_EXCLUSIVE, "NestedExclusiveLock">>,
     <<ViConst.VI_SUCCESS_SYNC, "AsynchronousOperationHandledSynchronously">>,
     <<ViConst.VI_WARN_QUEUE_OVERFLOW, "QueueOverflow">>,
     <<ViConst.VI_WARN_CONFIG_NLOADED, "ConfigurationNotLoaded">>,
     <<ViConst.VI_WARN_NULL_OBJECT, "NullObject">>,
     <<ViConst.VI_WARN_NSUP_ATTR_STATE, "AttributeStateNotSupported">>,
     <<ViConst.VI_WARN_UNKNOWN_STATUS, "UnknownStatus">>,
     <<ViConst.VI_WARN_NSUP_BUF, "BufferNotSupported">>,
     <<ViConst.VI_WARN_EXT_FUNC_NIMPL, "ExtendedFunctionNotImplemented">> >>

\* enum Error: the variants the fatal table produces (System .. NoPermission).
FatalErrorVariants ==
  {
    "System", "InvalidObject", "ResourceLocked", "InvalidExpression", "ResourceNotFound",
    "InvalidResourceName", "InvalidAccessMode", "Timeout", "ClosingFailed",
    "InvalidDegree", "InvalidJobId", "AttributeNotSupported",
    "AttributeStateNotSupported", "AttibuteReadOnly", "InvalidLockType",
    "InvalidAccessKey", "InvalidEvent", "InvalidMechanism", "HandlerNotInstalled",
    "InvalidHandlerReference", "InvalidContext", "QueueOverflow", "NotEnabled", "Abort",
    "RawWriteProtocolViolation", "RawReadProtocolViolation", "OutputProtocolViolation",
    "InputProtocolViolation", "Bus", "InProgress", "InvalidSetup", "Queue", "Allocation",
    "InvalidMask", "Io", "InvalidFormat", "FormatNotSupported", "TriggerLineInUse",
    "ModeNotSupported", "ServiceRequestNotReceived", "InvalidAddressSpace",
    "InvalidOffset", "InvalidWidth", "OffsetNotAccessible", "VariableWidthNotSupported",
    "SessionNotMapped", "ResponsePending", "NoListeners", "NotControllerInCharge",
    "NotSystemController", "OperationNotSupported", "InterruptPending", "AsrlParity",
    "AsrlFraming", "AsrlOverrun", "TriggerNotMapped", "OffsetNotAligned", "UserBuffer",
    "ResourceBusy", "WidthNotSupported", "InvalidParameter", "InvalidProtocol",
    "InvalidSize", "WindowMapped", "OperationNotImplemented", "InvalidLength",
    "InvalidMode", "SessionNotLocked", "MemoryNotShared", "LibraryNotFound",
    "InterruptNotSupported", "InvalidLine", "FileAccess", "FileIo", "LineNotSupported",
    "MechanismNotSupported", "InterfaceNumberNotConfigured", "ConnectionLost",
    "MachineNotAvailable", "NoPermission" }

\* enum CompletionCode.
CompletionCodeVariants ==
  {
    "Success", "EventEnabled", "EventDisabled", "QueueEmpty", "TerminationCharacterRead",
    "MaximumCount", "DeviceNotPresent", "TrigPathMapped", "QueueNotEmpty",
    "DoNotInvokeHandler", "NestedSharedLock", "NestedExclusiveLock",
    "AsynchronousOperationHandledSynchronously", "QueueOverflow",
    "ConfigurationNotLoaded", "NullObject", "AttributeStateNotSupported",
    "UnknownStatus", "BufferNotSupported", "ExtendedFunctionNotImplemented" }

\* The index of the first arm of a match whose pattern equals key, 0 if none.
RECURSIVE FirstArm(_, _, _)
FirstArm(table, key, i) ==
  IF i > Len(table) THEN 0
  ELSE IF table[i][1] = key THEN i
  ELSE FirstArm(table, key, i + 1)

\* `other as u32`, reached only with other >= 0, where the cast keeps the value.
AsU32(other) == other

\* The classifier without its sign test: an unmatched negative code falls
\* through to the completion table.
CompletionCode_try_from_NoSignTest(value) ==
  LET f == FirstArm(FatalTable, value, 1)
      c == FirstArm(CompletionTable, value, 1)
  IN  IF f # 0 THEN CCErr(FatalTable[f][2], 0)
      ELSE IF c # 0 THEN CCOk(CompletionTable[c][2])
      ELSE CCErr("InvalidCompletionCode", value)

\* The classifier with a copy-paste slip in the fatal table: the second arm
\* returns the first arm's variant.
CompletionCode_try_from_DuplicateArm(value) ==
  LET f == FirstArm(FatalTable, value, 1)
  IN  IF f # 0 THEN CCErr(FatalTable[IF f = 2 THEN 1 ELSE f][2], 0)
      ELSE IF value < 0 THEN CCErr("InvalidErrorCode", value)
      ELSE LET c == FirstArm(CompletionTable, AsU32(value), 1)
           IN  IF c # 0 THEN CCOk(CompletionTable[c][2])
               ELSE CCErr("InvalidCompletionCode", AsU32(value))

\* impl TryFrom<ViStatus> for CompletionCode
CompletionCode_try_from(value) ==
  LET f == FirstArm(FatalTable, value, 1)
  IN  IF f # 0 THEN CCErr(FatalTable[f][2], 0)
      ELSE IF value < 0 THEN CCErr("InvalidErrorCode", value)
      ELSE LET c == FirstArm(CompletionTable, AsU32(value), 1)
           IN  IF c # 0 THEN CCOk(CompletionTable[c][2])
               ELSE CCErr("InvalidCompletionCode", AsU32(value))

(***************************************************************************)
(* utility.rs: Timeout and its wire form.                                  *)
(* A 32-bit wire value, and a millisecond count, is kept as two 16-bit     *)
(* limbs <<hi, lo>> standing for hi * 65536 + lo, so that values up to and *)
(* beyond 0xFFFFFFFF keep their width.                                     *)
(***************************************************************************)

\* A result of a library call: Ok(val) or Err(err ...).  n1, n2 carry integer
\* payloads (a raw code; length and expected), cc a CompletionCode payload,
\* val the payload of InvalidTimeout (the duration) or of a parse error.
Ok(v) == [ok |-> TRUE, val |-> v, err |-> "", n1 |-> 0, n2 |-> 0, cc |-> ""]
Err(e, v, a, b, c) == [ok |-> FALSE, val |-> v, err |-> e, n1 |-> a, n2 |-> b, cc |-> c]
NoResult == [ok |-> FALSE, val |-> <<>>, err |-> "", n1 |-> 0, n2 |-> 0, cc |-> ""]

\* The `?` applied to Err(error) of the classifier: the error is returned as is.
Propagate(c) == Err(c.err, <<>>, c.code, 0, "")

\* Duration::as_millis of a Duration [secs, nanos], as limbs.
Duration_as_millis(d) ==
  LET sh == d.secs \div 65536
      sl == d.secs % 65536
      low == sl * 1000 + (d.nanos \div 1000000)
  IN  <<sh * 1000 + (low \div 65536), low % 65536>>

\* The conversion with `as u32` in place of try_into: the milliseconds
\* modulo 2^32.
Timeout_try_into_Wrapping(value) ==
  CASE value.kind = "Immediate" -> Ok(<<0, 0>>)
    [] value.kind = "Custom" ->
         LET ms == Duration_as_millis(value.d) IN Ok(<<ms[1] % 65536, ms[2]>>)
    [] value.kind = "Maximum" -> Ok(<<65535, 65534>>)
    [] value.kind = "Infinite" -> Ok(<<65535, 65535>>)

\* The conversion that clamps: a Custom duration beyond the range becomes
\* the largest wire value.
Timeout_try_into_Clamping(value) ==
  CASE value.kind = "Immediate" -> Ok(<<0, 0>>)
    [] value.kind = "Custom" ->
         LET ms == Duration_as_millis(value.d)
         IN  IF ms[1] <= 65535 THEN Ok(ms) ELSE Ok(<<65535, 65535>>)
    [] value.kind = "Maximum" -> Ok(<<65535, 65534>>)
    [] value.kind = "Infinite" -> Ok(<<65535, 65535>>)

\* impl TryFrom<Timeout> for ViUInt32
Timeout_try_into(value) ==
  CASE value.kind = "Immediate" -> Ok(<<0, 0>>)
    [] value.kind = "Custom" ->
         LET ms == Duration_as_millis(value.d)
         IN  IF ms[1] <= 65535 THEN Ok(ms)
             ELSE Err("InvalidTimeout", <<value.d.secs, value.d.nanos>>, 0, 0, "")
    [] value.kind = "Maximum" -> Ok(<<65535, 65534>>)
    [] value.kind = "Infinite" -> Ok(<<65535, 65535>>)

NoDuration == [secs |-> 0, nanos |-> 0]

DurationInputs ==
  { [secs |-> 0, nanos |-> 0],
    [secs |-> 1, nanos |-> 500000000],
    [secs |-> 4294967, nanos |-> 295999999],
    [secs |-> 4294967, nanos |-> 296000000] }

TimeoutInputs ==
  { [kind |-> k, d |-> NoDuration] : k \in {"Immediate", "Maximum", "Infinite"} }
  \cup { [kind |-> "Custom", d |-> d] : d \in DurationInputs }

(***************************************************************************)
(* session.rs: Session.                                                    *)
(***************************************************************************)

\* The length of read's chunk buffer: let mut buffer = [0u8; 4096].
BufLen == 4096

\* The transport double answers MaximumCount at most MaxChunks - 1 times in
\* a row; read itself has no such limit.
MaxChunks == 3


\* Raw statuses the transport answers with: the three codes read's loop
\* names, a warning, a fatal error, and unmapped codes of either sign.
TransportStatusInputs ==
  { ViConst.VI_SUCCESS, ViConst.VI_SUCCESS_TERM_CHAR, ViConst.VI_SUCCESS_MAX_CNT,
    ViConst.VI_WARN_QUEUE_OVERFLOW, ViConst.VI_ERROR_TMO, -1, 1 }

\* Raw statuses the transport answers a write with.
WriteStatusInputs ==
  { ViConst.VI_SUCCESS, ViConst.VI_WARN_QUEUE_OVERFLOW, ViConst.VI_ERROR_TMO, 1 }

\* The empty command and "*IDN?\n", as bytes.
CommandInputs == { <<>>, <<42, 73, 68, 78, 63, 10>> }

\* Byte counts the transport reports for a write of n bytes.
ReturnCountInputs(n) == { k \in {0, n - 1, n, n + 1} : k >= 0 }

\* What the transport stores in the chunk buffer in one viRead: nothing,
\* 'A', either byte of U+00E9 (0xC3 0xA9) alone, and both.
ChunkInputs == { <<>>, <<65>>, <<195>>, <<169>>, <<195, 169>> }

\* The width of the well-formed UTF-8 character that starts at s[i], or 0
\* when none starts there (core::str::validations::run_utf8_validation: the
\* first byte gives the width, the second byte's range depends on it).
Utf8CharAt(s, i) ==
  LET b == s[i]
      n == Len(s)
      In(k, lo, hi) == k <= n /\ s[k] >= lo /\ s[k] <= hi
      Lo2 == CASE b = 224 -> 160 [] b = 240 -> 144 [] OTHER -> 128
      Hi2 == CASE b = 237 -> 159 [] b = 244 -> 143 [] OTHER -> 191
  IN  IF b < 128 THEN 1
      ELSE IF b >= 194 /\ b <= 223 THEN (IF In(i + 1, 128, 191) THEN 2 ELSE 0)
      ELSE IF b >= 224 /\ b <= 239 THEN
        (IF In(i + 1, Lo2, Hi2) /\ In(i + 2, 128, 191) THEN 3 ELSE 0)
      ELSE IF b >= 240 /\ b <= 244 THEN
        (IF In(i + 1, Lo2, Hi2) /\ In(i + 2, 128, 191) /\ In(i + 3, 128, 191) THEN 4 ELSE 0)
      ELSE 0

\* String::from_utf8's validation (core::str::from_utf8): every byte that
\* is no continuation byte starts a well-formed character, and every
\* continuation byte lies within the character started at most three bytes
\* before it.
Utf8Valid(s) ==
  \A i \in 1..Len(s) :
    IF s[i] >= 128 /\ s[i] <= 191
      THEN \E k \in 1..3 :
             /\ i - k >= 1
             /\ ~(s[i - k] >= 128 /\ s[i - k] <= 191)
             /\ Utf8CharAt(s, i - k) > k
             /\ \A j \in (i - k + 1)..(i - 1) : s[j] >= 128 /\ s[j] <= 191
    ELSE Utf8CharAt(s, i) > 0

\* A lossy conversion: whatever the bytes, a string comes back.
String_from_utf8_Lossy(bytes) == Ok(bytes)

\* String::from_utf8(output).map_err(|_| Error::InvalidUtf8)
String_from_utf8(bytes) ==
  IF Utf8Valid(bytes) THEN Ok(bytes) ELSE Err("InvalidUtf8", <<>>, 0, 0, "")

\* write with the two fields of the mismatch exchanged.
Session_write_Swapped(cmd, status, return_count) ==
  LET c == CompletionCode_try_from(status)
  IN  IF ~c.ok THEN Propagate(c)
      ELSE IF Len(cmd) # return_count
        THEN Err("WriteLengthMistmatch", <<>>, Len(cmd), return_count, "")
      ELSE Ok(<<>>)

\* Session::write, given what viWrite answered: n1 is `length`, n2 `expected`.
Session_write(cmd, status, return_count) ==
  LET c == CompletionCode_try_from(status)
  IN  IF ~c.ok THEN Propagate(c)
      ELSE IF Len(cmd) # return_count
        THEN Err("WriteLengthMistmatch", <<>>, return_count, Len(cmd), "")
      ELSE Ok(<<>>)

\* viRead stores the bytes it read at the start of the buffer and leaves the
\* rest of the buffer as it was.
BufferAfterRead(buf, data) == data \o SubSeq(buf, Len(data) + 1, BufLen)

\* The whole buffer is appended, whatever return_count says.
ExtendFromSlice_WholeBuffer(out, buf, return_count) == out \o buf

\* output.extend_from_slice(&buffer[..return_count as usize])
ExtendFromSlice(out, buf, return_count) == out \o SubSeq(buf, 1, return_count)

\* The loop's decision with the warning codes taken for a normal end.
ReadStep_WarningBreaks(c) ==
  IF ~c.ok THEN "fatal"
  ELSE IF c.cc = "MaximumCount" THEN "continue"
  ELSE "break"

\* The loop's decision with MaximumCount taken for the end of the message.
ReadStep_MaximumCountBreaks(c) ==
  IF ~c.ok THEN "fatal"
  ELSE IF c.cc \in {"Success", "TerminationCharacterRead", "MaximumCount"} THEN "break"
  ELSE "unexpected"

\* The loop's decision with a timed-out chunk read again.
ReadStep_RetryTimeout(c) ==
  IF ~c.ok THEN (IF c.err = "Timeout" THEN "continue" ELSE "fatal")
  ELSE IF c.cc \in {"Success", "TerminationCharacterRead"} THEN "break"
  ELSE IF c.cc = "MaximumCount" THEN "continue"
  ELSE "unexpected"

\* Session::read, the loop's decision after one chunk: the `?` on the
\* classified status, then `match completion_code`.
ReadStep(c) ==
  IF ~c.ok THEN "fatal"
  ELSE IF c.cc \in {"Success", "TerminationCharacterRead"} THEN "break"
  ELSE IF c.cc = "MaximumCount" THEN "continue"
  ELSE "unexpected"

\* query that goes on to read whatever write returned.
QueryReads_Always(w) == TRUE

\* Session::query: `self.write(command)?` returns on an error; read follows
\* only a successful write.
QueryReads(w) == w.ok

\* The visa_bindings buffer masks (VISA's visa.h) that FlushMode names.
ViBufConst ==
  [ VI_READ_BUF |-> 1, VI_WRITE_BUF |-> 2, VI_READ_BUF_DISCARD |-> 4,
    VI_WRITE_BUF_DISCARD |-> 8, VI_IO_IN_BUF |-> 16, VI_IO_OUT_BUF |-> 32,
    VI_IO_IN_BUF_DISCARD |-> 64, VI_IO_OUT_BUF_DISCARD |-> 128 ]

\* bitflags! struct FlushMode: each named flag's bits.
FlushModeFlag ==
  [ READ_BUFFER |-> ViBufConst.VI_READ_BUF,
    READ_BUFFER_DISCARD |-> ViBufConst.VI_READ_BUF_DISCARD,
    WRITE_BUFFER |-> ViBufConst.VI_WRITE_BUF,
    WRITE_BUFFER_DISCARD |-> ViBufConst.VI_WRITE_BUF_DISCARD,
    IO_INPUT_BUFFER |-> ViBufConst.VI_IO_IN_BUF,
    IO_INPUT_BUFFER_DISCARD |-> ViBufConst.VI_IO_IN_BUF_DISCARD,
    IO_OUTPUT_BUFFER |-> ViBufConst.VI_IO_OUT_BUF,
    IO_OUTPUT_BUFFER_DISCARD |-> ViBufConst.VI_IO_OUT_BUF ]

RECURSIVE SumSet(_)
SumSet(S) == IF S = {} THEN 0 ELSE LET x == CHOOSE y \in S : TRUE IN x + SumSet(S \ {x})

\* FlushMode::bits of the union (`|`) of a set of named flags: every flag is
\* a single bit, so the union is the sum of the distinct masks.
FlushMode_bits(flags) == SumSet({ FlushModeFlag[f] : f \in flags })

FlushModeInputs ==
  { {}, {"READ_BUFFER"}, {"WRITE_BUFFER", "READ_BUFFER_DISCARD"},
    {"IO_OUTPUT_BUFFER"}, {"IO_OUTPUT_BUFFER_DISCARD"} }

\* One transport call: the function, its argument of interest, the raw status
\* it answered and the count it stored (return_count; 0 where there is none).
Call(f, a, s, r) == [fn |-> f, arg |-> a, status |-> s, ret |-> r]

\* The raw codes either table names.
FatalCodes == { FatalTable[i][1] : i \in 1..Len(FatalTable) }
CompletionCodes == { CompletionTable[i][1] : i \in 1..Len(CompletionTable) }

\* Raw statuses handed to the classifier: every code of the two tables, the
\* codes next to them, the ends of the 32-bit range and the codes around 0.
StatusInputs ==
  { c + k : c \in FatalCodes \cup CompletionCodes, k \in {-1, 0, 1} }
  \cup { -2147483647 - 1, 2147483647, -2, 2 }

\* The buffer and the output vector as read declares them.
EmptyBuffer == [i \in 1..BufLen |-> 0]

--------------------------------------------------------------------------
\* The session between two calls.
IoInit ==
  /\ pc = "idle"
  /\ op = "none"
  /\ command = <<>>
  /\ calls = <<>>
  /\ buffer = EmptyBuffer
  /\ output = <<>>
  /\ chunks = <<>>
  /\ result = NoResult

\* Session::set_timeout.  The conversion is an argument of viSetAttribute:
\* its `?` returns before the call is made.
SetTimeout(timeout, status) ==
  /\ pc = "idle"
  /\ LET conv == Timeout_try_into(timeout)
         c == CompletionCode_try_from(status)
     IN  /\ calls' = IF conv.ok THEN <<Call("viSetAttribute", conv.val, status, 0)>> ELSE <<>>
         /\ result' = IF ~conv.ok THEN conv
                      ELSE IF ~c.ok THEN Propagate(c)
                      ELSE Ok(<<>>)
  /\ pc' = "done"
  /\ op' = "set_timeout"
  /\ UNCHANGED <<command, buffer, output, chunks>>

\* Session::write.
Write(cmd, status, return_count) ==
  /\ pc = "idle"
  /\ calls' = <<Call("viWrite", Len(cmd), status, return_count)>>
  /\ result' = Session_write(cmd, status, return_count)
  /\ command' = cmd
  /\ pc' = "done"
  /\ op' = "write"
  /\ UNCHANGED <<buffer, output, chunks>>

\* Session::flush.
Flush(mode, status) ==
  /\ pc = "idle"
  /\ calls' = <<Call("viFlush", FlushMode_bits(mode), status, 0)>>
  /\ LET c == CompletionCode_try_from(status)
     IN  result' = IF c.ok THEN Ok(<<>>) ELSE Propagate(c)
  /\ pc' = "done"
  /\ op' = "flush"
  /\ UNCHANGED <<command, buffer, output, chunks>>

\* Session::read up to its loop: the zeroed buffer and the empty output.
ReadBegin ==
  /\ pc = "idle"
  /\ pc' = "reading"
  /\ op' = "read"
  /\ calls' = <<>>
  /\ buffer' = EmptyBuffer
  /\ output' = <<>>
  /\ chunks' = <<>>
  /\ UNCHANGED <<command, result>>

\* Session::query up to read's loop: the write, and on its success the start
\* of read.
QueryBegin(cmd, status, return_count) ==
  /\ pc = "idle"
  /\ LET w == Session_write(cmd, status, return_count)
     IN  /\ pc' = IF QueryReads(w) THEN "reading" ELSE "done"
         /\ result' = IF QueryReads(w) THEN result ELSE w
  /\ op' = "query"
  /\ command' = cmd
  /\ calls' = <<Call("viWrite", Len(cmd), status, return_count)>>
  /\ buffer' = EmptyBuffer
  /\ output' = <<>>
  /\ chunks' = <<>>

\* One iteration of read's loop: viRead answers with a status and the bytes
\* it stored (return_count of them); after a break, the UTF-8 conversion.
ReadChunk(status, data) ==
  /\ pc = "reading"
  /\ Len(chunks) < MaxChunks - 1 \/ status # ViConst.VI_SUCCESS_MAX_CNT
  /\ LET c == CompletionCode_try_from(status)
         return_count == Len(data)
         buf == BufferAfterRead(buffer, data)
         out == ExtendFromSlice(output, buf, return_count)
         step == ReadStep(c)
     IN  /\ calls' = Append(calls, Call("viRead", BufLen, status, return_count))
         /\ chunks' = Append(chunks, [data |-> data, status |-> status])
         /\ buffer' = buf
         /\ output' = IF step = "fatal" THEN output ELSE out
         /\ pc' = IF step = "continue" THEN "reading" ELSE "done"
         /\ result' = CASE step = "fatal" -> Propagate(c)
                        [] step = "unexpected" ->
                             Err("UnexpectedCompletionCode", <<>>, 0, 0, c.cc)
                        [] step = "break" -> String_from_utf8(out)
                        [] step = "continue" -> result
  /\ UNCHANGED <<op, command>>

\* The caller takes the result; the locals of the call are gone.
Return ==
  /\ pc = "done"
  /\ pc' = "idle"
  /\ op' = "none"
  /\ command' = <<>>
  /\ calls' = <<>>
  /\ buffer' = EmptyBuffer
  /\ output' = <<>>
  /\ chunks' = <<>>
  /\ result' = NoResult

\* The classifier before a call: any raw status may come in.
ClsInit ==
  /\ raw \in StatusInputs
  /\ classified = CCNone

\* CompletionCode::try_from(raw)
Classify ==
  /\ classified = CCNone
  /\ classified' = CompletionCode_try_from(raw)
  /\ UNCHANGED raw

(***************************************************************************)
(* resource_manager.rs, and the Drop impls of both owners.                 *)
(***************************************************************************)

\* How many Sessions one ResourceManager is asked for.
MaxSessions == 2

\* The visa_bindings access modes (VISA's visa.h).
ViLockConst == [VI_NO_LOCK |-> 0, VI_EXCLUSIVE_LOCK |-> 1, VI_SHARED_LOCK |-> 2]

\* impl From<AccessMode> for ViAccessMode
AccessMode_into(value) ==
  CASE value = "Exclusive" -> ViLockConst.VI_EXCLUSIVE_LOCK
    [] value = "Shared" -> ViLockConst.VI_SHARED_LOCK
    [] value = "None" -> ViLockConst.VI_NO_LOCK

AccessModeInputs == {"Exclusive", "Shared", "None"}

\* Resource names, as bytes: "A", and "A\0B" with its embedded null byte.
ResourceNameInputs == { <<65>>, <<65, 0, 66>> }

\* Statuses the transport answers an open with: success, a warning, a
\* fatal error and an unmapped non-negative code.
OpenStatusInputs ==
  { ViConst.VI_SUCCESS, ViConst.VI_WARN_CONFIG_NLOADED, ViConst.VI_ERROR_RSRC_NFOUND, 1 }

\* Statuses the transport answers viClose with.
CloseStatusInputs == { ViConst.VI_SUCCESS, ViConst.VI_ERROR_CLOSING_FAILED }

\* CString::new(name) fails on an interior null byte.
CString_new_ok(name) == \A i \in 1..Len(name) : name[i] # 0

NoOwner == [state |-> "none", value |-> 0]

\* The handles the transport can hand out: one per open call, and the 0 an
\* out-parameter starts with.
Handles == 0..(MaxSessions + 1)

\* The handle the transport stores in the out-parameter of an open: a fresh
\* one unless it answers with an error code, which leaves the 0 put there.
HandleStored(status) ==
  IF status >= 0 THEN 1 + Cardinality({ k \in 1..Len(opens) : opens[k].handle # 0 })
  ELSE 0

\* A drop that closes again when the close failed.
Drop_viClose_Retry(value, status) ==
  IF CompletionCode_try_from(status).ok THEN <<value>> ELSE <<value, value>>

\* impl Drop for Session / ResourceManager: the handles viClose is called
\* with in one drop.
Drop_viClose(value, status) == <<value>>

\* impl Drop: the line logged for the classified status of the close.
Drop_log(value, status) ==
  [ level |-> IF CompletionCode_try_from(status).ok THEN "debug" ELSE "error",
    handle |-> value ]

\* The record of one open call: the function, the handle it stored and
\* whether the classifier made an error of its status.
OpenCall(f, h, c) == [fn |-> f, handle |-> h, failed |-> ~c.ok]

\* closes after one drop of the owner of `value`.
CountClose(value, status) ==
  [h \in Handles |-> IF h = value THEN closes[h] + Len(Drop_viClose(value, status))
                     ELSE closes[h]]

LifeInit ==
  /\ rm = NoOwner
  /\ sess = [i \in 1..MaxSessions |-> NoOwner]
  /\ opens = <<>>
  /\ closes = [h \in Handles |-> 0]
  /\ logged = {}
  /\ lifeResult = NoResult

\* ResourceManager::new
RM_new(status) ==
  /\ rm.state = "none"
  /\ LET c == CompletionCode_try_from(status)
         h == HandleStored(status)
     IN  /\ opens' = Append(opens, OpenCall("viOpenDefaultRM", h, c))
         /\ rm' = IF c.ok THEN [state |-> "live", value |-> h]
                  ELSE [state |-> "failed", value |-> 0]
         /\ lifeResult' = IF c.ok THEN Ok(<<h>>) ELSE Propagate(c)
  /\ UNCHANGED <<sess, closes, logged>>

\* open_session with the timeout converted before the name is checked.
OpenSession_args_TimeoutFirst(resource_name, timeout) ==
  LET conv == Timeout_try_into(timeout)
  IN  IF ~conv.ok THEN conv
      ELSE IF ~CString_new_ok(resource_name) THEN Err("InvalidResourceName", <<>>, 0, 0, "")
      ELSE conv

\* ResourceManager::open_session up to the call of viOpen: CString::new and
\* its `?` come first; the timeout is converted as an argument of viOpen.
\* Ok carries the wire timeout handed to viOpen.
OpenSession_args(resource_name, timeout) ==
  LET conv == Timeout_try_into(timeout)
  IN  IF ~CString_new_ok(resource_name) THEN Err("InvalidResourceName", <<>>, 0, 0, "")
      ELSE IF ~conv.ok THEN conv
      ELSE conv

\* open_session that takes only Success for a success.
OpenSession_owns_OnlySuccess(c) == c.ok /\ c.cc = "Success"

\* ResourceManager::open_session after viOpen: the `?` on the classified
\* status returns its Err; on any Ok(completion_code) Session::new is reached.
OpenSession_owns(c) == c.ok

\* ResourceManager::open_session.
OpenSession(i, resource_name, access_mode, timeout, status) ==
  /\ rm.state = "live"
  /\ sess[i].state = "none"
  /\ \A j \in 1..(i - 1) : sess[j].state # "none"
  /\ LET mode == AccessMode_into(access_mode)
         args == OpenSession_args(resource_name, timeout)
         c == CompletionCode_try_from(status)
         h == HandleStored(status)
         called == args.ok /\ mode \in Nat
     IN  /\ opens' = IF called THEN Append(opens, OpenCall("viOpen", h, c)) ELSE opens
         /\ lifeResult' =
              IF ~args.ok THEN args
              ELSE IF ~OpenSession_owns(c) THEN Propagate(c)
              ELSE Ok(<<h>>)
         /\ sess' = [sess EXCEPT ![i] =
                       IF called /\ OpenSession_owns(c) THEN [state |-> "live", value |-> h]
                       ELSE [state |-> "failed", value |-> 0]]
  /\ UNCHANGED <<rm, closes, logged>>

\* open_session before it is called.
NoArgs == [name |-> <<>>, timeout |-> [kind |-> "Immediate", d |-> NoDuration], status |-> 0]

\* Raw statuses viOpen answers with: every completion code the classifier
\* names, three fatal errors and the unmapped codes next to 0.
OpenSessionStatusInputs ==
  CompletionCodes \cup
  { ViConst.VI_ERROR_RSRC_NFOUND, ViConst.VI_ERROR_TMO, ViConst.VI_ERROR_RSRC_LOCKED, -1, 1 }

\* One call of open_session on a fresh ResourceManager, with what it was
\* given kept for inspection.
OpenSessionCall(resource_name, access_mode, timeout, status) ==
  /\ OpenSession(1, resource_name, access_mode, timeout, status)
  /\ openArgs' = [name |-> resource_name, timeout |-> timeout, status |-> status]

OpenIdle == openArgs = NoArgs

\* The end of a Session's owner scope: impl Drop for Session.
DropSession(i, status) ==
  /\ sess[i].state = "live"
  /\ closes' = CountClose(sess[i].value, status)
  /\ logged' = logged \cup {Drop_log(sess[i].value, status)}
  /\ sess' = [sess EXCEPT ![i].state = "dropped"]
  /\ UNCHANGED <<rm, opens, lifeResult>>

\* The end of the ResourceManager's owner scope: impl Drop for ResourceManager.
DropRM(status) ==
  /\ rm.state = "live"
  /\ closes' = CountClose(rm.value, status)
  /\ logged' = logged \cup {Drop_log(rm.value, status)}
  /\ rm' = [rm EXCEPT !.state = "dropped"]
  /\ UNCHANGED <<sess, opens, lifeResult>>

(***************************************************************************)
(* resource_manager.rs: find_resources, and utility.rs: stringify_buffer.  *)
(***************************************************************************)

\* The length of the description buffer: VI_FIND_BUFLEN, 256 in visa.h.
FindBufLen == 256

\* The largest count the transport double reports.
MaxCount == 3

\* The length of the longest prefix of s that is one well-formed UTF-8
\* character, or 0 when s starts with no such character, and the length of
\* the ill-formed sequence that String::from_utf8_lossy replaces by one
\* U+FFFD in that case (core::str::Utf8Chunks).
Utf8Head(s) ==
  LET n == Len(s)
      b == s[1]
      In(i, lo, hi) == i <= n /\ s[i] >= lo /\ s[i] <= hi
      Lo2 == CASE b = 224 -> 160 [] b = 240 -> 144 [] OTHER -> 128
      Hi2 == CASE b = 237 -> 159 [] b = 244 -> 143 [] OTHER -> 191
  IN  IF b < 128 THEN [good |-> 1, bad |-> 0]
      ELSE IF b >= 194 /\ b <= 223 THEN
        IF In(2, 128, 191) THEN [good |-> 2, bad |-> 0] ELSE [good |-> 0, bad |-> 1]
      ELSE IF b >= 224 /\ b <= 239 THEN
        IF ~In(2, Lo2, Hi2) THEN [good |-> 0, bad |-> 1]
        ELSE IF ~In(3, 128, 191) THEN [good |-> 0, bad |-> 2]
        ELSE [good |-> 3, bad |-> 0]
      ELSE IF b >= 240 /\ b <= 244 THEN
        IF ~In(2, Lo2, Hi2) THEN [good |-> 0, bad |-> 1]
        ELSE IF ~In(3, 128, 191) THEN [good |-> 0, bad |-> 2]
        ELSE IF ~In(4, 128, 191) THEN [good |-> 0, bad |-> 3]
        ELSE [good |-> 4, bad |-> 0]
      ELSE [good |-> 0, bad |-> 1]

\* CStr::to_string_lossy: well-formed text is returned as it is; otherwise
\* well-formed characters are kept and every ill-formed sequence becomes
\* U+FFFD (0xEF 0xBF 0xBD).
RECURSIVE To_string_lossy(_)
To_string_lossy(s) ==
  IF Utf8Valid(s) THEN s
  ELSE LET h == Utf8Head(s)
       IN  IF h.good > 0
             THEN SubSeq(s, 1, h.good) \o To_string_lossy(SubSeq(s, h.good + 1, Len(s)))
           ELSE <<239, 191, 189>> \o To_string_lossy(SubSeq(s, h.bad + 1, Len(s)))

\* buffer.split_inclusive(|char| *char == b'\0').next(): the bytes up to and
\* with the first null byte, or the whole buffer when it holds none; <<>>
\* stands for the None of an empty buffer.
FirstPiece(buf) ==
  IF \E i \in 1..Len(buf) : buf[i] = 0
    THEN SubSeq(buf, 1, CHOOSE i \in 1..Len(buf) : buf[i] = 0 /\ \A j \in 1..(i - 1) : buf[j] # 0)
  ELSE buf

\* stringify_buffer that takes a buffer without null byte for a name that
\* fills it.
Stringify_buffer_Unterminated(buf) ==
  LET piece == FirstPiece(buf)
  IN  IF piece = <<>> THEN Err("InvalidNullString", <<>>, 0, 0, "")
      ELSE IF piece[Len(piece)] # 0 THEN Ok(piece)
      ELSE Ok(To_string_lossy(SubSeq(piece, 1, Len(piece) - 1)))

\* stringify_buffer
Stringify_buffer(buf) ==
  LET piece == FirstPiece(buf)
  IN  IF piece = <<>> \/ piece[Len(piece)] # 0
        THEN Err("InvalidNullString", <<>>, 0, 0, "")
      ELSE Ok(To_string_lossy(SubSeq(piece, 1, Len(piece) - 1)))

\* viFindRsrc / viFindNext store the description at the start of the buffer
\* and leave the rest of it as it was.
DescAfterFind(buf, data) == data \o SubSeq(buf, Len(data) + 1, FindBufLen)

\* let mut description = [0u8; VI_FIND_BUFLEN as _];
EmptyDesc == [i \in 1..FindBufLen |-> 0]

\* A description that fills the buffer and leaves no null byte in it.
FullDesc == [i \in 1..FindBufLen |-> 67]

\* What the transport stores as a description: "A" and "B" with their null
\* terminator, "D" and "CC" without one (the buffer's next byte ends the
\* name), a byte that is not UTF-8, and a description that fills the buffer.
DescInputs == { <<65, 0>>, <<66, 0>>, <<68>>, <<67, 67>>, <<255, 0>>, FullDesc }

\* The expressions find_resources is given: "?*", and "A\0B" with its
\* embedded null byte.
ExpressionInputs == { <<63, 42>>, <<65, 0, 66>> }

\* Raw statuses the find calls answer with.
FindStatusInputs ==
  { ViConst.VI_SUCCESS, ViConst.VI_WARN_CONFIG_NLOADED, ViConst.VI_ERROR_RSRC_NFOUND }

\* One find call: the function, the raw status and the buffer it left.
FindCall(f, s, d) == [fn |-> f, status |-> s, desc |-> d]

\* A loop over 1..=count: one find-next call too many.
FindNext_more_Inclusive(count, pushed) == pushed <= count

\* `for _ in 1..count`, after `pushed` names: the range holds count - 1
\* values, one per name that is still missing.
FindNext_more(count, pushed) == pushed < count

FindInit ==
  /\ fpc = "idle"
  /\ fcount = 0
  /\ fdesc = EmptyDesc
  /\ fcalls = <<>>
  /\ resources = <<>>
  /\ fresult = NoResult
  /\ flists = 0
  /\ fexpr = <<>>

\* How many find lists the transport hands out before it is left alone.
MaxLists == 2

\* viFindRsrc: the find lists it hands out in `list`, one unless it answers
\* with an error code.
ViFindRsrc_lists(status) == IF status >= 0 THEN 1 ELSE 0

\* CString::new(expression.as_ref()).map_err(|_| Error::InvalidNullString)
Find_expression(expression) ==
  IF CString_new_ok(expression) THEN Ok(expression)
  ELSE Err("InvalidNullString", <<>>, 0, 0, "")

\* ResourceManager::find_resources up to its loop: the expression as a
\* CString, whose `?` returns before any call is made; viFindRsrc, the
\* early return on count < 1, and the first name.  No path of the method
\* calls viClose on `list`: the find list stays with the transport.
FindBegin(expression, status, count, data) ==
  /\ fpc = "idle"
  /\ flists < MaxLists
  /\ fexpr' = expression
  /\ LET e == Find_expression(expression)
         c == CompletionCode_try_from(status)
         d == DescAfterFind(EmptyDesc, data)
         r == Stringify_buffer(d)
         more == FindNext_more(count, 1)
     IN  IF ~e.ok
           THEN /\ fcalls' = <<>>
                /\ fdesc' = EmptyDesc
                /\ fcount' = 0
                /\ resources' = <<>>
                /\ fresult' = e
                /\ fpc' = "done"
                /\ flists' = flists
         ELSE /\ fcalls' = <<FindCall("viFindRsrc", status, d)>>
              /\ flists' = flists + ViFindRsrc_lists(status)
              /\ fdesc' = d
              /\ fcount' = count
              /\ resources' = IF c.ok /\ count >= 1 /\ r.ok THEN <<r.val>> ELSE <<>>
              /\ fresult' = IF ~c.ok THEN Propagate(c)
                            ELSE IF count < 1 THEN Ok(<<>>)
                            ELSE IF ~r.ok THEN r
                            ELSE IF more THEN fresult
                            ELSE Ok(<<r.val>>)
              /\ fpc' = IF c.ok /\ count >= 1 /\ r.ok /\ more THEN "next" ELSE "done"

\* One iteration of find_resources' loop: viFindNext and the next name.
FindNext(status, data) ==
  /\ fpc = "next"
  /\ LET c == CompletionCode_try_from(status)
         d == DescAfterFind(fdesc, data)
         r == Stringify_buffer(d)
         names == Append(resources, r.val)
         more == FindNext_more(fcount, Len(names))
     IN  /\ fcalls' = Append(fcalls, FindCall("viFindNext", status, d))
         /\ fdesc' = d
         /\ resources' = IF c.ok /\ r.ok THEN names ELSE resources
         /\ fresult' = IF ~c.ok THEN Propagate(c)
                       ELSE IF ~r.ok THEN r
                       ELSE IF more THEN fresult
                       ELSE Ok(names)
         /\ fpc' = IF c.ok /\ r.ok /\ more THEN "next" ELSE "done"
  /\ UNCHANGED <<fcount, flists, fexpr>>

\* The caller takes the result; the locals of the call are gone.
FindReturn ==
  /\ fpc = "done"
  /\ fpc' = "idle"
  /\ fcount' = 0
  /\ fdesc' = EmptyDesc
  /\ fcalls' = <<>>
  /\ resources' = <<>>
  /\ fresult' = NoResult
  /\ fexpr' = <<>>
  /\ UNCHANGED flists

(***************************************************************************)
(* utility.rs: the value types of the mandatory-command layer.  A string   *)
(* is the sequence of its UTF-8 bytes.                                     *)
(***************************************************************************)

\* What a method of MandatoryCommands, or one of its parsers, returns:
\* Ok(()) / Ok(bool) / Ok(register) / Ok(Identification), a parse error with
\* the String it carries, or the Error of the session call in `io`.
PUnit ==
  [ok |-> TRUE, err |-> "", text |-> <<>>, kind |-> "unit", b |-> FALSE,
   bits |-> {}, parts |-> <<>>, io |-> NoResult]
PBool(x) == [PUnit EXCEPT !.kind = "bool", !.b = x]
PReg(k, bs) == [PUnit EXCEPT !.kind = k, !.bits = bs]
PIdent(ps) == [PUnit EXCEPT !.kind = "Identification", !.parts = ps]
PErr(e, t) == [PUnit EXCEPT !.ok = FALSE, !.kind = "error", !.err = e, !.text = t]
PIo(r) == [PUnit EXCEPT !.ok = FALSE, !.kind = "io", !.err = r.err, !.io = r]
PNone == [PUnit EXCEPT !.ok = FALSE, !.kind = "none"]

\* The characters with the Unicode White_Space property, as UTF-8:
\* U+0009..U+000D, U+0020, U+0085, U+00A0, U+1680, U+2000..U+200A, U+2028,
\* U+2029, U+202F, U+205F, U+3000 (char::is_whitespace).
WhiteSpace ==
  { <<b>> : b \in {9, 10, 11, 12, 13, 32} }
  \cup { <<194, 133>>, <<194, 160>>, <<225, 154, 128>> }
  \cup { <<226, 128, b>> : b \in (128..138) \cup {168, 169, 175} }
  \cup { <<226, 129, 159>>, <<227, 128, 128>> }

StartsWithWs(s) ==
  \E w \in WhiteSpace : Len(s) >= Len(w) /\ SubSeq(s, 1, Len(w)) = w
EndsWithWs(s) ==
  \E w \in WhiteSpace : Len(s) >= Len(w) /\ SubSeq(s, Len(s) - Len(w) + 1, Len(s)) = w

\* str::trim_start and str::trim_end.
RECURSIVE TrimStart(_)
TrimStart(s) ==
  IF ~StartsWithWs(s) THEN s
  ELSE LET w == CHOOSE w \in WhiteSpace : Len(s) >= Len(w) /\ SubSeq(s, 1, Len(w)) = w
       IN  TrimStart(SubSeq(s, Len(w) + 1, Len(s)))

RECURSIVE TrimEnd(_)
TrimEnd(s) ==
  IF ~EndsWithWs(s) THEN s
  ELSE LET w == CHOOSE w \in WhiteSpace :
                  Len(s) >= Len(w) /\ SubSeq(s, Len(s) - Len(w) + 1, Len(s)) = w
       IN  TrimEnd(SubSeq(s, 1, Len(s) - Len(w)))

\* str::trim
Trim(s) == TrimEnd(TrimStart(s))

\* The digits of str::parse::<u8>, most significant first: every byte must
\* be '0'..'9' and the value must stay within u8 (a checked multiply and
\* add per digit).  -1 stands for the ParseIntError.
RECURSIVE U8_digits(_, _)
U8_digits(s, acc) ==
  IF s = <<>> THEN acc
  ELSE IF s[1] < 48 \/ s[1] > 57 THEN -1
  ELSE IF acc * 10 + (s[1] - 48) > 255 THEN -1
  ELSE U8_digits(Tail(s), acc * 10 + (s[1] - 48))

\* str::parse::<u8> (u8::from_str): an empty string and a lone sign are
\* errors, one leading '+' is accepted, '-' is no digit of an unsigned type.
U8_from_str(s) ==
  IF s = <<>> THEN -1
  ELSE IF s = <<43>> \/ s = <<45>> THEN -1
  ELSE IF s[1] = 43 THEN U8_digits(Tail(s), 0)
  ELSE U8_digits(s, 0)

\* format!("{}", n) of a u8: its decimal digits, no leading zero.
RECURSIVE U8_to_string(_)
U8_to_string(n) ==
  IF n < 10 THEN <<48 + n>> ELSE Append(U8_to_string(n \div 10), 48 + (n % 10))

\* The four bitflags register types and the flags each one names.
RegisterKinds ==
  { "StandardEventStatusRegister", "StandardEventStatusEnableRegister",
    "StatusByteRegister", "ServiceRequestEnable" }

NamedBits(kind) ==
  CASE kind = "StandardEventStatusRegister" -> 0..7
    [] kind = "StandardEventStatusEnableRegister" -> 0..7
    [] kind = "StatusByteRegister" -> 3..7
    [] kind = "ServiceRequestEnable" -> {3, 4, 5, 7}

Pow2(i) == CASE i = 0 -> 1 [] i = 1 -> 2 [] i = 2 -> 4 [] i = 3 -> 8
             [] i = 4 -> 16 [] i = 5 -> 32 [] i = 6 -> 64 [] i = 7 -> 128

\* A register that keeps only the flags its type names.
From_bits_retain_Named(kind, value) ==
  { i \in NamedBits(kind) : (value \div Pow2(i)) % 2 = 1 }

\* Self::from_bits_retain(value): the register as the set of its set bits,
\* named or not (`const _ = !0`).
From_bits_retain(kind, value) == { i \in 0..7 : (value \div Pow2(i)) % 2 = 1 }

\* value() / bits(): the u8 behind a register.
Register_value(bs) == SumSet({ Pow2(i) : i \in bs })

\* The error each impl TryFrom<&str> maps a failed parse to.
RegisterParseError(kind) ==
  CASE kind = "StandardEventStatusRegister" -> "StandardEventStatusRegisterParse"
    [] kind = "StandardEventStatusEnableRegister" -> "StandardEventStatusRegisterParse"
    [] kind = "StatusByteRegister" -> "StatusByteRegisterQueryParse"
    [] kind = "ServiceRequestEnable" -> "ServiceRequestEnableQueryParse"

\* impl TryFrom<&str> for each register type: value.trim().parse(), the
\* error carrying value as it came.
Register_try_from(kind, value) ==
  LET n == U8_from_str(Trim(value))
  IN  IF n < 0 THEN PErr(RegisterParseError(kind), value)
      ELSE PReg(kind, From_bits_retain(kind, n))

\* str::split(','): the pieces between the separators, one more than there
\* are separators; the empty string gives one empty piece.
RECURSIVE Split(_, _)
Split(s, sep) ==
  IF \A i \in 1..Len(s) : s[i] # sep THEN <<s>>
  ELSE LET k == CHOOSE i \in 1..Len(s) : s[i] = sep /\ \A j \in 1..(i - 1) : s[j] # sep
       IN  <<SubSeq(s, 1, k - 1)>> \o Split(SubSeq(s, k + 1, Len(s)), sep)

\* Identification parsing that asks for at least 4 parts and drops the rest.
Identification_try_from_AtLeast(value) ==
  LET parts == Split(Trim(value), 44)
  IN  IF Len(parts) < 4 THEN PErr("IdentityParse", value)
      ELSE PIdent(SubSeq(parts, 1, 4))

\* impl TryFrom<&str> for Identification: manufacturer, model, serial and
\* firmware are parts[0] .. parts[3].
Identification_try_from(value) ==
  LET parts == Split(Trim(value), 44)
  IN  IF Len(parts) # 4 THEN PErr("IdentityParse", value)
      ELSE PIdent(<<parts[1], parts[2], parts[3], parts[4]>>)

\* operation_complete_query with the polarity of self_test_query.
OperationComplete_match_Inverted(response) ==
  CASE response = <<48>> -> PBool(TRUE)
    [] response = <<49>> -> PBool(FALSE)
    [] OTHER -> PErr("OperationCompleteQueryParse", response)

\* operation_complete_query: `match response.as_str()`.
OperationComplete_match(response) ==
  CASE response = <<48>> -> PBool(FALSE)
    [] response = <<49>> -> PBool(TRUE)
    [] OTHER -> PErr("OperationCompleteQueryParse", response)

\* self_test_query: `match response.as_str()`.
SelfTest_match(response) ==
  CASE response = <<48>> -> PBool(TRUE)
    [] response = <<49>> -> PBool(FALSE)
    [] OTHER -> PErr("SelfTestParse", response)

\* The methods of MandatoryCommands that write, and those that query.
CommandMethods ==
  { "clear_status", "standard_event_status_enable_command", "operation_complete_command",
    "reset_command", "service_request_enable_command", "wait_to_continue_command" }

QueryMethods ==
  { "standard_event_status_enable_query", "standard_event_status_register_query",
    "identification_query", "operation_complete_query", "service_request_enable_query",
    "read_status_byte_query", "self_test_query" }

\* The command each method hands to write / query, as bytes; `register` is
\* the argument of the two enable commands.
MandatoryText(method, register) ==
  CASE method = "clear_status" -> <<42, 67, 76, 83, 10>>
    [] method = "standard_event_status_enable_command" ->
         <<42, 69, 83, 69, 32>> \o U8_to_string(Register_value(register)) \o <<10>>
    [] method = "standard_event_status_enable_query" -> <<42, 69, 83, 69, 63, 10>>
    [] method = "standard_event_status_register_query" -> <<42, 69, 83, 82, 63, 10>>
    [] method = "identification_query" -> <<42, 73, 68, 78, 63, 10>>
    [] method = "operation_complete_command" -> <<42, 79, 80, 67, 10>>
    [] method = "operation_complete_query" -> <<42, 79, 80, 67, 63, 10>>
    [] method = "reset_command" -> <<42, 82, 83, 84, 10>>
    [] method = "service_request_enable_command" ->
         <<42, 83, 82, 69, 32>> \o U8_to_string(Register_value(register)) \o <<10>>
    [] method = "service_request_enable_query" -> <<42, 83, 82, 69, 63, 10>>
    [] method = "read_status_byte_query" -> <<42, 83, 84, 66, 63, 10>>
    [] method = "self_test_query" -> <<42, 84, 83, 84, 63, 10>>
    [] method = "wait_to_continue_command" -> <<42, 87, 65, 73, 10>>

\* A query method that goes on to decode whatever query returned, an empty
\* response in place of an Err.
Query_returns_err_Never(r) == FALSE

\* `let response = self.as_session().query(..)?;`: an Err of the session
\* call is returned as the method's result, before any decoding.
Query_returns_err(r) == ~r.ok

\* What each query method makes of the response String.
MandatoryDecode(method, response) ==
  CASE method = "standard_event_status_enable_query" ->
         Register_try_from("StandardEventStatusEnableRegister", response)
    [] method = "standard_event_status_register_query" ->
         Register_try_from("StandardEventStatusRegister", response)
    [] method = "identification_query" -> Identification_try_from(response)
    [] method = "operation_complete_query" -> OperationComplete_match(response)
    [] method = "service_request_enable_query" ->
         Register_try_from("ServiceRequestEnable", response)
    [] method = "read_status_byte_query" -> Register_try_from("StatusByteRegister", response)
    [] method = "self_test_query" -> SelfTest_match(response)

\* The longest response text the Identification parser is given.
MaxTextLen == 7

\* Durations around the ends of the wire range: 0, just under and at one
\* millisecond, 1.5 s, 65.536 s, 0xFFFFFFFF ms with and without a
\* sub-millisecond rest, 2^32 ms, and far beyond.
DurationCases ==
  DurationInputs \cup
  { [secs |-> 0, nanos |-> 999999], [secs |-> 0, nanos |-> 1000000],
    [secs |-> 65, nanos |-> 536000000], [secs |-> 4294967, nanos |-> 295000000],
    [secs |-> 4294968, nanos |-> 0], [secs |-> 2147483647, nanos |-> 999999999] }

TimeoutCases ==
  { [kind |-> k, d |-> NoDuration] : k \in {"Immediate", "Maximum", "Infinite"} }
  \cup { [kind |-> "Custom", d |-> d] : d \in DurationCases }

\* Register responses: the decimal text of every u8, bare, with a leading
\* space, with the newline terminator, and with both; and texts that are
\* no u8: empty, blank, 256, 999, -1, a lone sign, +5, 007, 0256, 1.0, "1 2",
\* "abc" and "12a".
RegisterTextInputs ==
  { pre \o U8_to_string(n) \o post : n \in 0..255, pre \in {<<>>, <<32>>}, post \in {<<>>, <<10>>} }
  \cup { <<>>, <<32>>, <<50, 53, 54>>, <<57, 57, 57>>, <<45, 49>>, <<43>>, <<43, 53>>,
         <<48, 48, 55>>, <<48, 50, 53, 54>>, <<49, 46, 48>>, <<49, 32, 50>>,
         <<97, 98, 99>>, <<49, 50, 97>>, <<50, 53, 54, 10>> }

\* Identification responses: every text of 'A', ',' and ' ' up to MaxTextLen
\* bytes, and the same with the newline terminator.
IdentTextInputs ==
  LET texts == UNION { [1..n -> {65, 44, 32}] : n \in 0..MaxTextLen }
  IN  texts \cup { t \o <<10>> : t \in texts }

\* *OPC? / *TST? responses: "0", "1", "2", the empty string, "1\n", "0\n",
\* " 0", "01", "10", "+1" and "true".
BoolTextInputs ==
  { <<48>>, <<49>>, <<50>>, <<>>, <<49, 10>>, <<48, 10>>, <<32, 48>>, <<48, 49>>,
    <<49, 48>>, <<43, 49>>, <<116, 114, 117, 101>> }

ValIdle ==
  /\ vfn = "none"
  /\ vin = <<>>
  /\ vout = PNone

\* ViUInt32::try_from(timeout)
ConvertTimeout(timeout) ==
  /\ vfn = "none"
  /\ vfn' = "Timeout"
  /\ vin' = timeout
  /\ vout' = Timeout_try_into(timeout)

\* <register type>::try_from(value)
ParseRegister(kind, value) ==
  /\ vfn = "none"
  /\ vfn' = kind
  /\ vin' = value
  /\ vout' = Register_try_from(kind, value)

\* Identification::try_from(value)
ParseIdentification(value) ==
  /\ vfn = "none"
  /\ vfn' = "Identification"
  /\ vin' = value
  /\ vout' = Identification_try_from(value)

\* The match of operation_complete_query on a response.
MatchOperationComplete(response) ==
  /\ vfn = "none"
  /\ vfn' = "operation_complete_query"
  /\ vin' = response
  /\ vout' = OperationComplete_match(response)

\* The match of self_test_query on a response.
MatchSelfTest(response) ==
  /\ vfn = "none"
  /\ vfn' = "self_test_query"
  /\ vin' = response
  /\ vout' = SelfTest_match(response)

\* The command text standard_event_status_enable_command /
\* service_request_enable_command builds from a register that was parsed.
FormatEnable ==
  /\ vfn \in {"StandardEventStatusEnableRegister", "ServiceRequestEnable"}
  /\ vout.ok
  /\ vfn' = IF vfn = "ServiceRequestEnable" THEN "service_request_enable_command"
            ELSE "standard_event_status_enable_command"
  /\ vout' = [PUnit EXCEPT !.text = MandatoryText(vfn', vout.bits)]
  /\ UNCHANGED vin

\* Chunks of a response: "1", "0\n", "13" and "A,".
ResponseChunkInputs == { <<49>>, <<48, 10>>, <<49, 51>>, <<65, 44>> }

\* Raw statuses viRead answers a query of the mandatory layer with.
ResponseStatusInputs ==
  { ViConst.VI_SUCCESS, ViConst.VI_SUCCESS_MAX_CNT, ViConst.VI_WARN_QUEUE_OVERFLOW,
    ViConst.VI_ERROR_TMO }

\* Raw statuses viWrite answers a mandatory command or query with.
MandatoryWriteStatusInputs == { ViConst.VI_SUCCESS, ViConst.VI_ERROR_TMO }

\* Registers given to the two enable commands: 0, 5, 133 and 255.
EnableRegisterInputs == { {}, {0, 2}, {0, 2, 7}, 0..7 }

MandIdle ==
  /\ mcmd = "none"
  /\ marg = {}
  /\ parsed = PNone

\* A command method: one Session::write of its text.
MandatoryCommand(method, register, status, return_count) ==
  /\ method \in CommandMethods
  /\ Write(MandatoryText(method, register), status, return_count)
  /\ mcmd' = method
  /\ marg' = register
  /\ parsed' = IF result'.ok THEN PUnit ELSE PIo(result')

\* A query method up to read's loop: Session::query's write.
MandatoryQuery(method, status, return_count) ==
  /\ method \in QueryMethods
  /\ QueryBegin(MandatoryText(method, {}), status, return_count)
  /\ mcmd' = method
  /\ marg' = {}
  /\ parsed' = IF pc' = "done" THEN PIo(result') ELSE PNone

\* A query method inside read's loop; once read returned, the `?` on its
\* result and the decoding of the response.
MandatoryRead(status, data) ==
  /\ mcmd \in QueryMethods
  /\ ReadChunk(status, data)
  /\ parsed' = IF pc' # "done" THEN parsed
               ELSE IF Query_returns_err(result') THEN PIo(result')
               ELSE MandatoryDecode(mcmd, result'.val)
  /\ UNCHANGED <<mcmd, marg>>

\* The caller takes the result of the method.
MandatoryReturn ==
  /\ Return
  /\ mcmd' = "none"
  /\ marg' = {}
  /\ parsed' = PNone

(***************************************************************************)
(* One Session used by several callers.  Session holds the handle alone    *)
(* and all its methods take &self, so a shared &Session can be used from   *)
(* two threads at once; no method takes a lock.  Each transport call is    *)
(* one step, and the calls of the callers reach the handle in any order.   *)
(***************************************************************************)

\* The threads that hold the shared &Session.
Callers == {1, 2}

\* How many transport calls on the handle are followed.
MaxWire == 4

\* One transport call on the handle, with the caller that made it: the
\* function, its argument of interest, the raw status and the count stored.
WireCall(t, f, a, s, r) == [by |-> t, fn |-> f, arg |-> a, status |-> s, ret |-> r]

\* "*OPC?\n" as bytes.
SharedCommandInputs == { <<42, 79, 80, 67, 63, 10>> }

\* Raw statuses the transport answers a write, a flush or a set-attribute
\* with, and the byte counts of a write.
SharedWriteStatusInputs == { ViConst.VI_SUCCESS, ViConst.VI_ERROR_TMO }
SharedReturnCountInputs(n) == { n - 1, n }

\* Raw statuses and bytes one viRead answers with.
SharedReadStatusInputs ==
  { ViConst.VI_SUCCESS_TERM_CHAR, ViConst.VI_SUCCESS_MAX_CNT, ViConst.VI_ERROR_TMO }
SharedChunkInputs == { <<49>>, <<49, 10>> }

SharedIdle ==
  /\ tpc = [t \in Callers |-> "idle"]
  /\ top = [t \in Callers |-> "none"]
  /\ tcmd = [t \in Callers |-> <<>>]
  /\ tbuf = [t \in Callers |-> <<>>]
  /\ tout = [t \in Callers |-> <<>>]
  /\ tres = [t \in Callers |-> NoResult]
  /\ wire = <<>>

\* Session::write by caller t.
SharedWrite(t, cmd, status, return_count) ==
  /\ tpc[t] = "idle"
  /\ Len(wire) < MaxWire
  /\ wire' = Append(wire, WireCall(t, "viWrite", Len(cmd), status, return_count))
  /\ tres' = [tres EXCEPT ![t] = Session_write(cmd, status, return_count)]
  /\ tcmd' = [tcmd EXCEPT ![t] = cmd]
  /\ tpc' = [tpc EXCEPT ![t] = "done"]
  /\ top' = [top EXCEPT ![t] = "write"]
  /\ UNCHANGED <<tbuf, tout>>

\* A Timeout with a wire form and one without.
SharedTimeoutInputs ==
  { [kind |-> "Immediate", d |-> NoDuration],
    [kind |-> "Custom", d |-> [secs |-> 4294967, nanos |-> 296000000]] }

\* Session::set_timeout by caller t: no call when the conversion fails.
SharedSetTimeout(t, timeout, status) ==
  /\ tpc[t] = "idle"
  /\ Len(wire) < MaxWire
  /\ LET conv == Timeout_try_into(timeout)
         c == CompletionCode_try_from(status)
     IN  /\ wire' = IF conv.ok THEN Append(wire, WireCall(t, "viSetAttribute", conv.val, status, 0))
                    ELSE wire
         /\ tres' = [tres EXCEPT ![t] = IF ~conv.ok THEN conv
                                        ELSE IF ~c.ok THEN Propagate(c)
                                        ELSE Ok(<<>>)]
  /\ tpc' = [tpc EXCEPT ![t] = "done"]
  /\ top' = [top EXCEPT ![t] = "set_timeout"]
  /\ UNCHANGED <<tcmd, tbuf, tout>>

\* Session::flush by caller t.
SharedFlush(t, mode, status) ==
  /\ tpc[t] = "idle"
  /\ Len(wire) < MaxWire
  /\ wire' = Append(wire, WireCall(t, "viFlush", FlushMode_bits(mode), status, 0))
  /\ LET c == CompletionCode_try_from(status)
     IN  tres' = [tres EXCEPT ![t] = IF c.ok THEN Ok(<<>>) ELSE Propagate(c)]
  /\ tpc' = [tpc EXCEPT ![t] = "done"]
  /\ top' = [top EXCEPT ![t] = "flush"]
  /\ UNCHANGED <<tcmd, tbuf, tout>>

\* Session::read by caller t, up to its loop.
SharedReadBegin(t) ==
  /\ tpc[t] = "idle"
  /\ tpc' = [tpc EXCEPT ![t] = "reading"]
  /\ top' = [top EXCEPT ![t] = "read"]
  /\ tbuf' = [tbuf EXCEPT ![t] = EmptyBuffer]
  /\ tout' = [tout EXCEPT ![t] = <<>>]
  /\ UNCHANGED <<tcmd, tres, wire>>

\* Session::query by caller t, up to read's loop: the write, and on its
\* success the start of read.
SharedQueryBegin(t, cmd, status, return_count) ==
  /\ tpc[t] = "idle"
  /\ Len(wire) < MaxWire
  /\ wire' = Append(wire, WireCall(t, "viWrite", Len(cmd), status, return_count))
  /\ LET w == Session_write(cmd, status, return_count)
     IN  /\ tpc' = [tpc EXCEPT ![t] = IF QueryReads(w) THEN "reading" ELSE "done"]
         /\ tres' = [tres EXCEPT ![t] = IF QueryReads(w) THEN tres[t] ELSE w]
  /\ top' = [top EXCEPT ![t] = "query"]
  /\ tcmd' = [tcmd EXCEPT ![t] = cmd]
  /\ tbuf' = [tbuf EXCEPT ![t] = EmptyBuffer]
  /\ tout' = [tout EXCEPT ![t] = <<>>]

\* One iteration of read's loop in caller t.
SharedReadChunk(t, status, data) ==
  /\ tpc[t] = "reading"
  /\ Len(wire) < MaxWire
  /\ LET c == CompletionCode_try_from(status)
         return_count == Len(data)
         buf == BufferAfterRead(tbuf[t], data)
         out == ExtendFromSlice(tout[t], buf, return_count)
         step == ReadStep(c)
     IN  /\ wire' = Append(wire, WireCall(t, "viRead", BufLen, status, return_count))
         /\ tbuf' = [tbuf EXCEPT ![t] = buf]
         /\ tout' = [tout EXCEPT ![t] = IF step = "fatal" THEN tout[t] ELSE out]
         /\ tpc' = [tpc EXCEPT ![t] = IF step = "continue" THEN "reading" ELSE "done"]
         /\ tres' = [tres EXCEPT ![t] =
                       CASE step = "fatal" -> Propagate(c)
                         [] step = "unexpected" ->
                              Err("UnexpectedCompletionCode", <<>>, 0, 0, c.cc)
                         [] step = "break" -> String_from_utf8(out)
                         [] step = "continue" -> tres[t]]
  /\ UNCHANGED <<top, tcmd>>

(***************************************************************************)
(* The transport's view of one Session: its timeout attribute and the      *)
(* flush modes it is handed.                                               *)
(***************************************************************************)

\* VI_ATTR_TMO_VALUE of a session nobody has configured: 2000 ms.
ViTmoDefault == <<0, 2000>>

\* viSetAttribute(VI_ATTR_TMO_VALUE): the attribute afterwards, the value
\* given when the transport answers VI_SUCCESS and the old one otherwise.
ViSetAttribute(attr, value, status) == IF status = ViConst.VI_SUCCESS THEN value ELSE attr

NoTimeout == [kind |-> "Immediate", d |-> NoDuration]

TmoIdle ==
  /\ tmoAttr = ViTmoDefault
  /\ tmoBefore = ViTmoDefault
  /\ tmoArg = NoTimeout

\* Statuses the transport answers viSetAttribute with.
SetAttributeStatusInputs ==
  { ViConst.VI_SUCCESS, ViConst.VI_WARN_NSUP_ATTR_STATE, ViConst.VI_ERROR_NSUP_ATTR_STATE }

\* Statuses the transport answers the one viOpen with.
SessionOpenStatusInputs == { ViConst.VI_SUCCESS, ViConst.VI_ERROR_RSRC_NFOUND }

\* Session::set_timeout on the Session open_session returned, and what the
\* transport makes of the call when there is one.
SetTimeoutCall(timeout, status) ==
  /\ sess[1].state = "live"
  /\ SetTimeout(timeout, status)
  /\ tmoArg' = timeout
  /\ tmoBefore' = tmoAttr
  /\ tmoAttr' = IF calls' = <<>> THEN tmoAttr
                ELSE ViSetAttribute(tmoAttr, calls'[1].arg, calls'[1].status)

FlushIdle == flushArg = {}

\* Every value of FlushMode made of named flags.
FlushModeSets == SUBSET (DOMAIN FlushModeFlag)

\* Statuses the transport answers viFlush with.
FlushStatusInputs == { ViConst.VI_SUCCESS, ViConst.VI_ERROR_INV_MASK }

\* Session::flush, with the mode it was given kept for inspection.
FlushCall(mode, status) ==
  /\ Flush(mode, status)
  /\ flushArg' = mode

\* The caller takes the result of flush.
FlushReturn ==
  /\ op = "flush"
  /\ Return
  /\ flushArg' = {}

\* The parts of the state the first three specifications never touch.
ExtIdle == OpenIdle /\ FindInit /\ ValIdle /\ MandIdle /\ TmoIdle /\ FlushIdle /\ SharedIdle

--------------------------------------------------------------------------
\* The classifier at rest, for the specifications that do not drive it.
ClsIdle ==
  /\ raw = 0
  /\ classified = CCNone

Init == IoInit /\ ClsIdle /\ LifeInit /\ ExtIdle

Next ==
  \/ \E t \in TimeoutInputs, s \in TransportStatusInputs : SetTimeout(t, s) /\ UNCHANGED <<clsVars, lifeVars, extVars>>
  \/ \E cmd \in CommandInputs, s \in WriteStatusInputs :
       \E n \in ReturnCountInputs(Len(cmd)) : Write(cmd, s, n) /\ UNCHANGED <<clsVars, lifeVars, extVars>>
  \/ \E m \in FlushModeInputs, s \in TransportStatusInputs : Flush(m, s) /\ UNCHANGED <<clsVars, lifeVars, extVars>>
  \/ ReadBegin /\ UNCHANGED <<clsVars, lifeVars, extVars>>
  \/ \E cmd \in CommandInputs, s \in WriteStatusInputs :
       \E n \in ReturnCountInputs(Len(cmd)) : QueryBegin(cmd, s, n) /\ UNCHANGED <<clsVars, lifeVars, extVars>>
  \/ \E s \in TransportStatusInputs, d \in ChunkInputs : ReadChunk(s, d) /\ UNCHANGED <<clsVars, lifeVars, extVars>>
  \/ Return /\ UNCHANGED <<clsVars, lifeVars, extVars>>

Spec == Init /\ [][Next]_vars

InitClassify == ClsInit /\ IoInit /\ LifeInit /\ ExtIdle

NextClassify == Classify /\ UNCHANGED <<ioVars, lifeVars, extVars>>

SpecClassify == InitClassify /\ [][NextClassify]_vars


InitLife == LifeInit /\ IoInit /\ ClsIdle /\ ExtIdle

NextLife ==
  \/ \E s \in OpenStatusInputs : RM_new(s) /\ UNCHANGED <<ioVars, clsVars, extVars>>
  \/ \E i \in 1..MaxSessions, n \in ResourceNameInputs, m \in AccessModeInputs :
       \E t \in TimeoutInputs, s \in OpenStatusInputs :
         OpenSession(i, n, m, t, s) /\ UNCHANGED <<ioVars, clsVars, extVars>>
  \/ \E i \in 1..MaxSessions, s \in CloseStatusInputs :
       DropSession(i, s) /\ UNCHANGED <<ioVars, clsVars, extVars>>
  \/ \E s \in CloseStatusInputs : DropRM(s) /\ UNCHANGED <<ioVars, clsVars, extVars>>

SpecLife == InitLife /\ [][NextLife]_vars

\* open_session on a fresh ResourceManager.
InitOpen == LifeInit /\ IoInit /\ ClsIdle /\ ExtIdle

NextOpen ==
  \/ \E s \in OpenStatusInputs :
       RM_new(s) /\ UNCHANGED <<ioVars, clsVars, openArgs, findVars, valVars, mandVars, tmoVars, flushArg, shVars>>
  \/ \E n \in ResourceNameInputs, m \in AccessModeInputs, t \in TimeoutInputs :
       \E s \in OpenSessionStatusInputs :
         OpenSessionCall(n, m, t, s) /\ UNCHANGED <<ioVars, clsVars, findVars, valVars, mandVars, tmoVars, flushArg, shVars>>

SpecOpen == InitOpen /\ [][NextOpen]_vars

\* find_resources.
InitFind == FindInit /\ IoInit /\ ClsIdle /\ LifeInit /\ OpenIdle /\ ValIdle /\ MandIdle /\ TmoIdle /\ FlushIdle /\ SharedIdle

NextFind ==
  \/ \E e \in ExpressionInputs, s \in FindStatusInputs, n \in 0..MaxCount, d \in DescInputs :
       FindBegin(e, s, n, d) /\ UNCHANGED <<ioVars, clsVars, lifeVars, openArgs, valVars, mandVars, tmoVars, flushArg, shVars>>
  \/ \E s \in FindStatusInputs, d \in DescInputs :
       FindNext(s, d) /\ UNCHANGED <<ioVars, clsVars, lifeVars, openArgs, valVars, mandVars, tmoVars, flushArg, shVars>>
  \/ FindReturn /\ UNCHANGED <<ioVars, clsVars, lifeVars, openArgs, valVars, mandVars, tmoVars, flushArg, shVars>>

SpecFind == InitFind /\ [][NextFind]_vars

\* The conversions of utility.rs, each applied to one input.
InitValues == ValIdle /\ IoInit /\ ClsIdle /\ LifeInit /\ OpenIdle /\ FindInit /\ MandIdle /\ TmoIdle /\ FlushIdle /\ SharedIdle

NextValues ==
  \/ \E t \in TimeoutCases :
       ConvertTimeout(t) /\ UNCHANGED <<ioVars, clsVars, lifeVars, openArgs, findVars, mandVars, tmoVars, flushArg, shVars>>
  \/ \E k \in RegisterKinds, v \in RegisterTextInputs :
       ParseRegister(k, v) /\ UNCHANGED <<ioVars, clsVars, lifeVars, openArgs, findVars, mandVars, tmoVars, flushArg, shVars>>
  \/ \E v \in IdentTextInputs :
       ParseIdentification(v) /\ UNCHANGED <<ioVars, clsVars, lifeVars, openArgs, findVars, mandVars, tmoVars, flushArg, shVars>>
  \/ \E v \in BoolTextInputs :
       MatchOperationComplete(v) /\ UNCHANGED <<ioVars, clsVars, lifeVars, openArgs, findVars, mandVars, tmoVars, flushArg, shVars>>
  \/ \E v \in BoolTextInputs :
       MatchSelfTest(v) /\ UNCHANGED <<ioVars, clsVars, lifeVars, openArgs, findVars, mandVars, tmoVars, flushArg, shVars>>
  \/ FormatEnable /\ UNCHANGED <<ioVars, clsVars, lifeVars, openArgs, findVars, mandVars, tmoVars, flushArg, shVars>>

SpecValues == InitValues /\ [][NextValues]_vars

\* The methods of MandatoryCommands on one Session.
InitMandatory == IoInit /\ MandIdle /\ ClsIdle /\ LifeInit /\ OpenIdle /\ FindInit /\ ValIdle /\ TmoIdle /\ FlushIdle /\ SharedIdle

NextMandatory ==
  \/ \E m \in CommandMethods, r \in EnableRegisterInputs, s \in MandatoryWriteStatusInputs :
       \E n \in ReturnCountInputs(Len(MandatoryText(m, r))) :
         MandatoryCommand(m, r, s, n)
           /\ UNCHANGED <<clsVars, lifeVars, openArgs, findVars, valVars, tmoVars, flushArg, shVars>>
  \/ \E m \in QueryMethods, s \in MandatoryWriteStatusInputs :
       \E n \in ReturnCountInputs(Len(MandatoryText(m, {}))) :
         MandatoryQuery(m, s, n) /\ UNCHANGED <<clsVars, lifeVars, openArgs, findVars, valVars, tmoVars, flushArg, shVars>>
  \/ \E s \in ResponseStatusInputs, d \in ResponseChunkInputs :
       MandatoryRead(s, d) /\ UNCHANGED <<clsVars, lifeVars, openArgs, findVars, valVars, tmoVars, flushArg, shVars>>
  \/ MandatoryReturn /\ UNCHANGED <<clsVars, lifeVars, openArgs, findVars, valVars, tmoVars, flushArg, shVars>>

SpecMandatory == InitMandatory /\ [][NextMandatory]_vars

\* set_timeout on a Session opened from a fresh ResourceManager.
InitTimeout == LifeInit /\ IoInit /\ ClsIdle /\ ExtIdle

NextTimeout ==
  \/ \E s \in OpenStatusInputs :
       RM_new(s) /\ UNCHANGED <<ioVars, clsVars, openArgs, findVars, valVars, mandVars, tmoVars, flushArg, shVars>>
  \/ \E n \in ResourceNameInputs, m \in AccessModeInputs, t \in TimeoutInputs :
       \E s \in SessionOpenStatusInputs :
         OpenSessionCall(n, m, t, s)
           /\ UNCHANGED <<ioVars, clsVars, findVars, valVars, mandVars, tmoVars, flushArg, shVars>>
  \/ \E t \in TimeoutInputs, s \in SetAttributeStatusInputs :
       SetTimeoutCall(t, s)
         /\ UNCHANGED <<clsVars, lifeVars, openArgs, findVars, valVars, mandVars, flushArg, shVars>>
  \/ Return /\ UNCHANGED <<clsVars, lifeVars, extVars>>

SpecTimeout == InitTimeout /\ [][NextTimeout]_vars

\* flush with every set of named flags.
InitFlush == IoInit /\ ClsIdle /\ LifeInit /\ ExtIdle

NextFlush ==
  \/ \E m \in FlushModeSets, s \in FlushStatusInputs :
       FlushCall(m, s)
         /\ UNCHANGED <<clsVars, lifeVars, openArgs, findVars, valVars, mandVars, tmoVars, shVars>>
  \/ FlushReturn
       /\ UNCHANGED <<clsVars, lifeVars, openArgs, findVars, valVars, mandVars, tmoVars, shVars>>

SpecFlush == InitFlush /\ [][NextFlush]_vars

\* Two callers on one Session, one method call each: any of set_timeout,
\* write, flush, read and query.
InitShared == IoInit /\ ClsIdle /\ LifeInit /\ ExtIdle

SharedRest == <<ioVars, clsVars, lifeVars, openArgs, findVars, valVars, mandVars, tmoVars, flushArg>>

NextShared ==
  \/ \E t \in Callers, cmd \in SharedCommandInputs, s \in SharedWriteStatusInputs :
       \E n \in SharedReturnCountInputs(Len(cmd)) :
         SharedWrite(t, cmd, s, n) /\ UNCHANGED SharedRest
  \/ \E t \in Callers, x \in SharedTimeoutInputs, s \in SharedWriteStatusInputs :
       SharedSetTimeout(t, x, s) /\ UNCHANGED SharedRest
  \/ \E t \in Callers, m \in { {"READ_BUFFER"}, {"IO_OUTPUT_BUFFER_DISCARD"} },
          s \in SharedWriteStatusInputs :
       SharedFlush(t, m, s) /\ UNCHANGED SharedRest
  \/ \E t \in Callers : SharedReadBegin(t) /\ UNCHANGED SharedRest
  \/ \E t \in Callers, cmd \in SharedCommandInputs, s \in SharedWriteStatusInputs :
       \E n \in SharedReturnCountInputs(Len(cmd)) :
         SharedQueryBegin(t, cmd, s, n) /\ UNCHANGED SharedRest
  \/ \E t \in Callers, s \in SharedReadStatusInputs, d \in SharedChunkInputs :
       SharedReadChunk(t, s, d) /\ UNCHANGED SharedRest

SpecShared == InitShared /\ [][NextShared]_vars

(***************************************************************************)
(* The properties.                                                         *)
(***************************************************************************)

IsReadOp == op \in {"read", "query"}

\* The classified status of the i-th chunk read of the current call.
ChunkClass(i) == CompletionCode_try_from(chunks[i].status)

\* The bytes the transport delivered, chunk after chunk.
RECURSIVE ConcatChunks(_)
ConcatChunks(cs) == IF cs = <<>> THEN <<>> ELSE cs[1].data \o ConcatChunks(Tail(cs))

ReadCalls == SelectSeq(calls, LAMBDA k : k.fn = "viRead")

StopCodes == {"Success", "TerminationCharacterRead"}
LoopCodes == StopCodes \cup {"MaximumCount"}

InvalidUtf8 == Err("InvalidUtf8", <<>>, 0, 0, "")

\* C1: in Session::read the classified completion code of the latest chunk
\* decides the next step: Success / TerminationCharacterRead end the loop and
\* the call returns the accumulated bytes (through the UTF-8 conversion),
\* MaximumCount leaves the call in its loop, about to read again, and any
\* other completion code ends the call with UnexpectedCompletionCode carrying
\* that code; every chunk before the latest was a MaximumCount.
C1_ReadDecision ==
  (IsReadOp /\ chunks # <<>>) =>
    LET n == Len(chunks)
        c == ChunkClass(n)
    IN  /\ \A i \in 1..(n - 1) : ChunkClass(i) = CCOk("MaximumCount")
        /\ (c.ok /\ c.cc \in StopCodes) =>
             (pc = "done" /\ result \in {Ok(output), InvalidUtf8})
        /\ (c = CCOk("MaximumCount")) => pc = "reading"
        /\ (c.ok /\ c.cc \notin LoopCodes) =>
             (pc = "done" /\ result = Err("UnexpectedCompletionCode", <<>>, 0, 0, c.cc))

\* A read that went round its loop once and then met a warning code.
C1_Witness ==
  /\ IsReadOp /\ pc = "done" /\ Len(chunks) = 2
  /\ result.err = "UnexpectedCompletionCode" /\ result.cc = "QueueOverflow"

\* C2: the bytes read returns are the concatenation, in read order, of the
\* return_count bytes each viRead stored; what an earlier, longer chunk left
\* in the buffer is not among them.
C2_OutputIsConcatenation ==
  IsReadOp =>
    /\ pc = "reading" => output = ConcatChunks(chunks)
    /\ (pc = "done" /\ result.ok) => result.val = ConcatChunks(chunks)

\* A successful read of two chunks, the second shorter than the first, so
\* that the buffer still holds a byte of the first.
C2_Witness ==
  /\ IsReadOp /\ pc = "done" /\ result.ok /\ Len(chunks) = 2
  /\ Len(chunks[1].data) = 2 /\ Len(chunks[2].data) = 1
  /\ buffer[2] = chunks[1].data[2]

\* C3: read issues one viRead per chunk and is in its loop exactly as long
\* as every chunk so far classified as MaximumCount: it ends at the first
\* chunk that did not, and not before.
C3_ReadCount ==
  IsReadOp =>
    /\ Len(ReadCalls) = Len(chunks)
    /\ \A i \in 1..(Len(chunks) - 1) : ChunkClass(i) = CCOk("MaximumCount")
    /\ chunks # <<>> =>
         /\ pc \in {"reading", "done"}
         /\ pc = "reading" <=> ChunkClass(Len(chunks)) = CCOk("MaximumCount")
    /\ chunks = <<>> => (pc = "reading" \/ op = "query")

\* A read that ended at its third chunk.
C3_Witness ==
  /\ op = "read" /\ pc = "done" /\ Len(chunks) = 3 /\ Len(ReadCalls) = 3

\* C4: write, when viWrite's status classifies as a completion code and the
\* count it reports differs from the command's length, fails with
\* WriteLengthMistmatch { length: reported, expected: requested }; it
\* succeeds exactly when the status is a completion code and the counts agree.
C4_WriteLengthMismatch ==
  (op = "write" /\ pc = "done") =>
    LET k == calls[1]
        c == CompletionCode_try_from(k.status)
        n == Len(command)
    IN  /\ Len(calls) = 1 /\ k.fn = "viWrite" /\ k.arg = n
        /\ (c.ok /\ k.ret # n) => result = Err("WriteLengthMistmatch", <<>>, k.ret, n, "")
        /\ result.ok <=> (c.ok /\ k.ret = n)

\* A write of six bytes of which the transport reports five.
C4_Witness ==
  /\ op = "write" /\ pc = "done" /\ result.err = "WriteLengthMistmatch"
  /\ result.n1 = 5 /\ result.n2 = 6

\* Caller t is inside query, or has its result in hand.
InQuery(t) == top[t] = "query" /\ tpc[t] \in {"reading", "done"}

\* The place on the handle's record of the viWrite of t's current call: the
\* last viWrite t made.
WriteOf(t) ==
  CHOOSE i \in 1..Len(wire) :
    /\ wire[i].by = t /\ wire[i].fn = "viWrite"
    /\ \A j \in (i + 1)..Len(wire) : ~(wire[j].by = t /\ wire[j].fn = "viWrite")

\* The places of the calls t made after that write, and the last of them.
OwnAfter(t) == { i \in (WriteOf(t) + 1)..Len(wire) : wire[i].by = t }
LastOf(t) ==
  IF OwnAfter(t) = {} THEN WriteOf(t)
  ELSE CHOOSE i \in OwnAfter(t) : \A j \in OwnAfter(t) : j <= i

\* The write of t's query failed: a status that is no completion code, or a
\* byte count that is not the command's length.
WriteFailed(t) ==
  \/ wire[WriteOf(t)].status \notin CompletionCodes
  \/ wire[WriteOf(t)].ret # Len(tcmd[t])

\* What every caller's query does by itself: one viWrite, then viRead calls
\* only; no viRead and the write's error after a failed write; the read
\* loop after a good one.
QueryOwnCalls(t) ==
  /\ \A i \in OwnAfter(t) : wire[i].fn = "viRead"
  /\ WriteFailed(t) =>
       /\ OwnAfter(t) = {}
       /\ tpc[t] = "done"
       /\ tres[t] = Session_write(tcmd[t], wire[WriteOf(t)].status, wire[WriteOf(t)].ret)
       /\ ~tres[t].ok
  /\ ~WriteFailed(t) => (tpc[t] = "reading" \/ OwnAfter(t) # {})

\* C5, as claimed: query issues one viWrite followed by the read loop, no
\* other transport call is made on the session between that write and the
\* last read of the loop, and after a failed write query returns the write's
\* error without a viRead.
C5_QueryOrder ==
  \A t \in Callers :
    InQuery(t) =>
      /\ QueryOwnCalls(t)
      /\ \A i \in WriteOf(t)..LastOf(t) : wire[i].by = t

\* C5, as the code has it: the calls query itself makes are one viWrite
\* followed by viRead calls only, with the write's error and no viRead
\* after a failed write.  Session takes no lock: whatever lies between
\* query's write and its last read and is not query's own is a call another
\* caller of the same Session made through its own set_timeout, write,
\* flush, read or query, and with one caller alone there is none.
C5_QueryOwnCalls ==
  \A t \in Callers :
    InQuery(t) =>
      /\ QueryOwnCalls(t)
      /\ \A i \in WriteOf(t)..LastOf(t) :
           wire[i].by # t =>
             /\ wire[i].by \in Callers \ {t}
             /\ wire[i].fn \in {"viWrite", "viRead", "viFlush", "viSetAttribute"}
             /\ wire[i].fn = "viFlush" => top[wire[i].by] = "flush"
             /\ wire[i].fn = "viSetAttribute" => top[wire[i].by] = "set_timeout"
      /\ (\A u \in Callers \ {t} : \A i \in 1..Len(wire) : wire[i].by # u) =>
           \A i \in WriteOf(t)..LastOf(t) : wire[i].by = t

\* Caller 1's query has written and read its answer, and caller 2's write
\* reached the handle between the two.
C5_Witness ==
  /\ InQuery(1) /\ tpc[1] = "done" /\ tres[1].ok
  /\ Len(wire) = 3
  /\ wire[1].by = 1 /\ wire[1].fn = "viWrite"
  /\ wire[2].by = 2 /\ wire[2].fn = "viWrite"
  /\ wire[3].by = 1 /\ wire[3].fn = "viRead"

\* The fatal Error variant, respectively the CompletionCode, a code maps to.
FatalVariantOf(code) == FatalTable[CHOOSE i \in 1..Len(FatalTable) : FatalTable[i][1] = code][2]
CompletionVariantOf(code) ==
  CompletionTable[CHOOSE i \in 1..Len(CompletionTable) : CompletionTable[i][1] = code][2]

\* C6: classification yields one outcome, decided by sign: a negative code
\* gives an Error, the mapped fatal variant or InvalidErrorCode(code), never
\* a CompletionCode; a non-negative code gives its mapped CompletionCode or
\* InvalidCompletionCode(code), never a variant of the fatal table.
C6_ClassifyBySign ==
  classified # CCNone =>
    /\ classified.ok => (classified.cc \in CompletionCodeVariants /\ classified.err = "")
    /\ ~classified.ok => (classified.cc = "" /\ classified.err # "")
    /\ raw < 0 =>
         /\ ~classified.ok
         /\ IF raw \in FatalCodes
              THEN classified = CCErr(FatalVariantOf(raw), 0)
              ELSE classified = CCErr("InvalidErrorCode", raw)
    /\ raw >= 0 =>
         /\ classified.err \notin FatalErrorVariants
         /\ IF raw \in CompletionCodes
              THEN classified = CCOk(CompletionVariantOf(raw))
              ELSE classified = CCErr("InvalidCompletionCode", raw)

\* An unmapped negative code, classified.
C6_Witness ==
  /\ raw = -2 /\ classified = CCErr("InvalidErrorCode", -2)

\* What the classifier makes of every input.
ClassifiedImage == { CompletionCode_try_from(r) : r \in StatusInputs }

\* C7: both tables are bijections: no other raw code classifies to the
\* variant a mapped code classifies to, and every fatal Error variant and
\* every CompletionCode is what some raw code classifies to.
C7_TablesBijective ==
  /\ (classified # CCNone /\ (classified.ok \/ classified.err \in FatalErrorVariants)) =>
       \A r \in StatusInputs \ {raw} : CompletionCode_try_from(r) # classified
  /\ \A v \in FatalErrorVariants : CCErr(v, 0) \in ClassifiedImage
  /\ \A v \in CompletionCodeVariants : CCOk(v) \in ClassifiedImage
  /\ Len(FatalTable) = Cardinality(FatalErrorVariants)
  /\ Len(CompletionTable) = Cardinality(CompletionCodeVariants)

\* The first code of the fatal table, classified.
C7_Witness ==
  /\ raw = ViConst.VI_ERROR_SYSTEM_ERROR /\ classified = CCErr("System", 0)

\* C8: after the loop ends on Success / TerminationCharacterRead the whole
\* of the bytes delivered is validated once: valid, it is returned as it is;
\* invalid, read fails with InvalidUtf8 and returns no text.
C8_Utf8Whole ==
  (IsReadOp /\ pc = "done" /\ chunks # <<>>) =>
    LET c == ChunkClass(Len(chunks))
        all == ConcatChunks(chunks)
    IN  (c.ok /\ c.cc \in StopCodes) =>
          result = IF Utf8Valid(all) THEN Ok(all) ELSE InvalidUtf8

\* U+00E9 delivered one byte per chunk, and accepted.
C8_Witness ==
  /\ IsReadOp /\ pc = "done" /\ Len(chunks) = 2
  /\ chunks[1].data = <<195>> /\ chunks[2].data = <<169>>
  /\ result = Ok(<<195, 169>>)

\* C9: set_timeout, write and flush issue at most one transport call; in
\* read a chunk whose status classifies as an error, or as a completion code
\* the loop does not name, is the last one read, and the call returns that
\* error and none of the bytes accumulated.
C9_NoRetry ==
  /\ op \in {"set_timeout", "write", "flush"} => Len(calls) <= 1
  /\ IsReadOp =>
       \A i \in 1..Len(chunks) :
         LET c == ChunkClass(i)
         IN  (~c.ok \/ c.cc \notin LoopCodes) =>
               /\ i = Len(chunks)
               /\ Len(ReadCalls) = i
               /\ pc = "done"
               /\ result = IF ~c.ok THEN Propagate(c)
                           ELSE Err("UnexpectedCompletionCode", <<>>, 0, 0, c.cc)
               /\ result.val = <<>>

\* A read whose second chunk timed out after a first chunk brought bytes.
C9_Witness ==
  /\ op = "read" /\ pc = "done" /\ Len(chunks) = 2
  /\ chunks[1].data # <<>> /\ output # <<>>
  /\ result.err = "Timeout"

\* C10: the handle of every owner that was created is closed not at all
\* while the owner lives and exactly once when it has been dropped, whatever
\* the order of the drops and whatever viClose answered; a failed close is
\* logged and neither repeated nor returned; handles of failed opens, and
\* handles nobody owns, are never closed.
C10_CloseOnce ==
  LET Owner(k) == IF k = 0 THEN rm ELSE sess[k]
      Slots == 0..MaxSessions
  IN  /\ \A k \in Slots :
           /\ Owner(k).state = "live" => (Owner(k).value # 0 /\ closes[Owner(k).value] = 0)
           /\ Owner(k).state = "dropped" => (Owner(k).value # 0 /\ closes[Owner(k).value] = 1)
           /\ Owner(k).state \in {"none", "failed"} => Owner(k).value = 0
      /\ \A j, k \in Slots :
           (j # k /\ Owner(j).value # 0) => Owner(j).value # Owner(k).value
      /\ \A h \in Handles :
           closes[h] > 0 => \E k \in Slots : Owner(k).state = "dropped" /\ Owner(k).value = h
      /\ \A n \in 1..Len(opens) : opens[n].failed => closes[opens[n].handle] = 0
      /\ \A e \in logged : closes[e.handle] = 1
      /\ lifeResult.err # "ClosingFailed"

\* The ResourceManager dropped, with a failed close, before one of its
\* Sessions and after the other.
C10_Witness ==
  /\ rm.state = "dropped" /\ sess[1].state = "live" /\ sess[2].state = "dropped"
  /\ [level |-> "error", handle |-> rm.value] \in logged

\* open_session was called and reached viOpen.
OpenCalled == \E k \in 1..Len(opens) : opens[k].fn = "viOpen"

HasNull(name) == \E i \in 1..Len(name) : name[i] = 0

\* C11: when viOpen was invoked, open_session returns an owned Session, with
\* the handle the transport stored, for every status that is one of the
\* classifier's completion codes, the warning codes among them; for every
\* other status it returns the classifier's Error and constructs no Session.
C11_OpenOwnsOnCompletion ==
  (sess[1].state # "none" /\ OpenCalled) =>
    /\ openArgs.status \in CompletionCodes =>
         /\ lifeResult.ok
         /\ sess[1].state = "live"
         /\ sess[1].value # 0
         /\ lifeResult.val = <<sess[1].value>>
    /\ openArgs.status \notin CompletionCodes =>
         /\ ~lifeResult.ok
         /\ sess[1] = [state |-> "failed", value |-> 0]
         /\ IF openArgs.status \in FatalCodes
              THEN lifeResult.err = FatalVariantOf(openArgs.status)
            ELSE /\ lifeResult.err \in {"InvalidErrorCode", "InvalidCompletionCode"}
                 /\ lifeResult.n1 = openArgs.status

\* A Session owned after viOpen answered with a warning.
C11_Witness ==
  /\ sess[1].state = "live"
  /\ openArgs.status = ViConst.VI_WARN_QUEUE_OVERFLOW
  /\ lifeResult.ok

\* C12: a resource name with an embedded null byte makes open_session fail
\* with InvalidResourceName without viOpen being invoked, whatever the
\* timeout, an unrepresentable one included.
C12_NullNameFirst ==
  (sess[1].state # "none" /\ HasNull(openArgs.name)) =>
    /\ lifeResult = Err("InvalidResourceName", <<>>, 0, 0, "")
    /\ ~OpenCalled
    /\ sess[1] = [state |-> "failed", value |-> 0]

\* A name with a null byte given together with a duration of 2^32 ms.
C12_Witness ==
  /\ sess[1].state = "failed"
  /\ HasNull(openArgs.name)
  /\ openArgs.timeout = [kind |-> "Custom", d |-> [secs |-> 4294967, nanos |-> 296000000]]
  /\ lifeResult.err = "InvalidResourceName"

\* The bytes of a description buffer before its first null byte.
NameIn(desc) ==
  SubSeq(desc, 1, (CHOOSE i \in 1..Len(desc) : desc[i] = 0 /\ \A j \in 1..(i - 1) : desc[j] # 0) - 1)

\* The find call that left `desc` went well: a completion code, and a null
\* byte in the buffer.
FindCallGood(k) == k.status \in CompletionCodes /\ HasNull(k.desc)

\* C13: find_resources calls viFindRsrc once and then only viFindNext.  With
\* a completion code and count = 0 it returns the empty sequence and calls
\* viFindNext not at all.  With count = n >= 1 it never makes more than
\* n - 1 find-next calls, and makes fewer only when a call failed (a status
\* that is no completion code, or a description without null terminator)
\* and the Error of that call is what it returns; otherwise it returns n
\* names, the k-th the text of the buffer the k-th call left.  (Given an
\* expression with a null byte it makes no call at all.)
C13_FindCalls ==
  /\ fpc = "next" => (Len(fcalls) = Len(resources) /\ Len(resources) < fcount)
  /\ (fpc = "done" /\ HasNull(fexpr)) =>
       (fcalls = <<>> /\ fresult = Err("InvalidNullString", <<>>, 0, 0, ""))
  /\ (fpc = "done" /\ ~HasNull(fexpr)) =>
       LET n == fcount
           nexts == Len(fcalls) - 1
           last == fcalls[Len(fcalls)]
       IN  /\ Len(fcalls) >= 1
           /\ fcalls[1].fn = "viFindRsrc"
           /\ \A k \in 2..Len(fcalls) : fcalls[k].fn = "viFindNext"
           /\ (fcalls[1].status \in CompletionCodes /\ n = 0) =>
                (fresult = Ok(<<>>) /\ nexts = 0)
           /\ n >= 1 => nexts <= n - 1
           /\ (n >= 1 /\ fresult.ok) =>
                /\ nexts = n - 1
                /\ Len(fresult.val) = n
                /\ \A k \in 1..n :
                     /\ FindCallGood(fcalls[k])
                     /\ Utf8Valid(NameIn(fcalls[k].desc)) =>
                          fresult.val[k] = NameIn(fcalls[k].desc)
           /\ ~fresult.ok =>
                /\ ~FindCallGood(last)
                /\ \A k \in 1..(Len(fcalls) - 1) : FindCallGood(fcalls[k])
                /\ IF last.status \in CompletionCodes THEN fresult.err = "InvalidNullString"
                   ELSE fresult.err = FatalVariantOf(last.status)

\* Three resources found: "A" from the initial description, then "B" and
\* "A" from two find-next calls.
C13_Witness ==
  /\ fpc = "done"
  /\ fcount = 3
  /\ Len(fcalls) = 3
  /\ fresult = Ok(<< <<65>>, <<66>>, <<65>> >>)

\* The whole seconds and the rest in milliseconds of a wire value <<hi, lo>>,
\* by long division by 1000.
WireSeconds(v) == ((v[1] \div 1000) * 65536) + ((((v[1] % 1000) * 65536) + v[2]) \div 1000)
WireMillisRest(v) == (((v[1] % 1000) * 65536) + v[2]) % 1000

\* A Duration of at most 0xFFFFFFFF = 4294967295 whole milliseconds.
FitsU32(d) == d.secs < 4294967 \/ (d.secs = 4294967 /\ d.nanos < 296000000)

\* C14: Immediate converts to 0, Maximum to 0xFFFFFFFE, Infinite to
\* 0xFFFFFFFF, Custom(d) to the whole milliseconds of d when they are at most
\* 0xFFFFFFFF; any longer Custom(d) gives InvalidTimeout(d), never a value.
C14_TimeoutWire ==
  vfn = "Timeout" =>
    CASE vin.kind = "Immediate" -> vout = Ok(<<0, 0>>)
      [] vin.kind = "Maximum" -> vout = Ok(<<65535, 65534>>)
      [] vin.kind = "Infinite" -> vout = Ok(<<65535, 65535>>)
      [] vin.kind = "Custom" ->
           IF FitsU32(vin.d)
             THEN /\ vout.ok
                  /\ vout.val[1] \in 0..65535 /\ vout.val[2] \in 0..65535
                  /\ WireSeconds(vout.val) = vin.d.secs
                  /\ WireMillisRest(vout.val) = vin.d.nanos \div 1000000
           ELSE vout = Err("InvalidTimeout", <<vin.d.secs, vin.d.nanos>>, 0, 0, "")

\* A duration of exactly 2^32 milliseconds refused.
C14_Witness ==
  /\ vfn = "Timeout"
  /\ vin = [kind |-> "Custom", d |-> [secs |-> 4294967, nanos |-> 296000000]]
  /\ vout.err = "InvalidTimeout"

\* The mnemonic of each mandatory command and query, newline-terminated, as
\* the standard spells it; n is the decimal text of the register of *ESE / *SRE.
Mnemonic(method, n) ==
  CASE method = "clear_status" -> <<42, 67, 76, 83>> \o <<10>>                        \* *CLS
    [] method = "operation_complete_command" -> <<42, 79, 80, 67>> \o <<10>>          \* *OPC
    [] method = "reset_command" -> <<42, 82, 83, 84>> \o <<10>>                       \* *RST
    [] method = "wait_to_continue_command" -> <<42, 87, 65, 73>> \o <<10>>            \* *WAI
    [] method = "standard_event_status_enable_command" ->
         <<42, 69, 83, 69, 32>> \o n \o <<10>>                                        \* *ESE <n>
    [] method = "service_request_enable_command" ->
         <<42, 83, 82, 69, 32>> \o n \o <<10>>                                        \* *SRE <n>
    [] method = "standard_event_status_enable_query" -> <<42, 69, 83, 69, 63, 10>>    \* *ESE?
    [] method = "standard_event_status_register_query" -> <<42, 69, 83, 82, 63, 10>>  \* *ESR?
    [] method = "identification_query" -> <<42, 73, 68, 78, 63, 10>>                  \* *IDN?
    [] method = "operation_complete_query" -> <<42, 79, 80, 67, 63, 10>>              \* *OPC?
    [] method = "service_request_enable_query" -> <<42, 83, 82, 69, 63, 10>>          \* *SRE?
    [] method = "read_status_byte_query" -> <<42, 83, 84, 66, 63, 10>>                \* *STB?
    [] method = "self_test_query" -> <<42, 84, 83, 84, 63, 10>>                       \* *TST?

\* The decimal text of the registers the enable commands are given: 0, 5,
\* 133 and 255.
EnableDecimal(register) ==
  CASE register = {} -> <<48>>
    [] register = {0, 2} -> <<53>>
    [] register = {0, 2, 7} -> <<49, 51, 51>>
    [] register = 0..7 -> <<50, 53, 53>>

\* The one viWrite of a method went well: a completion code, and every byte
\* of the command written.
WriteWentWell ==
  calls[1].status \in CompletionCodes /\ calls[1].ret = Len(command)

\* C15: a mandatory command is one viWrite of its newline-terminated
\* mnemonic and no viRead, and returns what write returned; a mandatory
\* query is one viWrite of its mnemonic followed, only if that write went
\* well, by the viRead calls of one read; the Error of a failed write or read
\* is the query's result as it is, and only a response that was read is
\* decoded.
C15_MandatoryWire ==
  /\ mcmd \in CommandMethods =>
       /\ pc = "done"
       /\ Len(calls) = 1 /\ calls[1].fn = "viWrite" /\ calls[1].arg = Len(command)
       /\ command = Mnemonic(mcmd, EnableDecimal(marg))
       /\ result.ok = WriteWentWell
       /\ parsed = IF result.ok THEN PUnit ELSE PIo(result)
  /\ mcmd \in QueryMethods =>
       /\ Len(calls) >= 1 /\ calls[1].fn = "viWrite" /\ calls[1].arg = Len(command)
       /\ command = Mnemonic(mcmd, <<>>)
       /\ \A k \in 2..Len(calls) : calls[k].fn = "viRead"
       /\ ~WriteWentWell => (pc = "done" /\ Len(calls) = 1 /\ ~result.ok)
       /\ pc = "reading" => parsed = PNone
       /\ pc = "done" =>
            /\ ~result.ok => parsed = PIo(result)
            /\ result.ok => (Len(calls) >= 2 /\ parsed.kind \notin {"io", "none"})

\* *IDN? written, one chunk read, and the second viRead timed out: the
\* Timeout is the result of identification_query.
C15_Witness ==
  /\ mcmd = "identification_query"
  /\ pc = "done"
  /\ Len(calls) = 3
  /\ calls[3].status = ViConst.VI_ERROR_TMO
  /\ parsed = PIo(Err("Timeout", <<>>, 0, 0, ""))

\* ASCII whitespace, and a text without the ASCII whitespace around it.
AsciiWs == {9, 10, 11, 12, 13, 32}
Stripped(t) ==
  LET inked == { i \in 1..Len(t) : t[i] \notin AsciiWs }
  IN  IF inked = {} THEN <<>>
      ELSE SubSeq(t, CHOOSE i \in inked : \A j \in inked : i <= j,
                     CHOOSE i \in inked : \A j \in inked : i >= j)

\* The value of a text of decimal digits, and the texts that are the
\* decimal form of a u8: one to three digits, no sign, no leading zero.
RECURSIVE DigitsValue(_)
DigitsValue(t) ==
  IF t = <<>> THEN 0 ELSE DigitsValue(SubSeq(t, 1, Len(t) - 1)) * 10 + (t[Len(t)] - 48)
AllDigits(t) == \A i \in 1..Len(t) : t[i] \in 48..57
IsU8Decimal(t) ==
  /\ Len(t) \in 1..3 /\ AllDigits(t)
  /\ Len(t) > 1 => t[1] # 48
  /\ DigitsValue(t) <= 255

\* The register of kind k whose value is n.
RegisterOf(k, n) == PReg(k, { i \in 0..7 : (n \div Pow2(i)) % 2 = 1 })

\* C16: every query decodes its response with the surrounding whitespace
\* removed: "1" / "0" within whitespace decode as "1" / "0" do for *OPC? and
\* *TST?, the decimal text of n within whitespace decodes to the register n,
\* and a response that has four comma-separated parts once the whitespace
\* is removed decodes to an Identification.
C16_TrimmedBeforeParsing ==
  LET t == Stripped(vin)
  IN  /\ vfn = "operation_complete_query" =>
           /\ t = <<49>> => vout = PBool(TRUE)
           /\ t = <<48>> => vout = PBool(FALSE)
      /\ vfn = "self_test_query" =>
           /\ t = <<48>> => vout = PBool(TRUE)
           /\ t = <<49>> => vout = PBool(FALSE)
      /\ (vfn \in RegisterKinds /\ IsU8Decimal(t)) => vout = RegisterOf(vfn, DigitsValue(t))
      /\ (vfn = "Identification" /\ Cardinality({ i \in 1..Len(t) : t[i] = 44 }) = 3) => vout.ok

\* C17: operation_complete_query decodes "1" to true and "0" to false,
\* self_test_query "0" to true and "1" to false; every other response text
\* fails with OperationCompleteQueryParse, respectively SelfTestParse,
\* carrying the response.
C17_BooleanPolarity ==
  /\ vfn = "operation_complete_query" =>
       vout = CASE vin = <<49>> -> PBool(TRUE)
                [] vin = <<48>> -> PBool(FALSE)
                [] OTHER -> PErr("OperationCompleteQueryParse", vin)
  /\ vfn = "self_test_query" =>
       vout = CASE vin = <<48>> -> PBool(TRUE)
                [] vin = <<49>> -> PBool(FALSE)
                [] OTHER -> PErr("SelfTestParse", vin)

\* "0" decoded as a passed self test.
C17_Witness ==
  /\ vfn = "self_test_query"
  /\ vin = <<48>>
  /\ vout = PBool(TRUE)

\* The parse error kind named for each register query.
NamedParseError(kind) ==
  CASE kind = "StandardEventStatusEnableRegister" -> "StandardEventStatusEnableRegisterParse"   \* *ESE?
    [] kind = "StandardEventStatusRegister" -> "StandardEventStatusRegisterParse"               \* *ESR?
    [] kind = "ServiceRequestEnable" -> "ServiceRequestEnableQueryParse"                        \* *SRE?
    [] kind = "StatusByteRegister" -> "StatusByteRegisterQueryParse"                            \* *STB?

\* A text that is no decimal integer in 0..=255: empty, with a byte that is
\* neither a digit nor a leading '+', or of digits worth more than 255.
NoU8(t) ==
  \/ t = <<>>
  \/ \E i \in 1..Len(t) : t[i] \notin 48..57 /\ ~(i = 1 /\ t[i] = 43 /\ Len(t) > 1)
  \/ AllDigits(t) /\ Len(t) <= 4 /\ DigitsValue(t) > 255

\* C18: a register response that, whitespace removed, is no decimal integer
\* in 0..=255 fails; a failed register parse gives the error kind named for
\* its own query, carrying the response; the four kinds are pairwise
\* distinct.
C18_DistinctParseErrors ==
  /\ vfn \in RegisterKinds =>
       /\ NoU8(Stripped(vin)) => ~vout.ok
       /\ ~vout.ok => vout = PErr(NamedParseError(vfn), vin)
  /\ \A j, k \in RegisterKinds : j # k => NamedParseError(j) # NamedParseError(k)

\* C19: for each of the four register types and every n in 0..=255, the
\* decimal text of n parses to the register whose value is n, the bits
\* the type gives no name included; and the enable command built from a
\* register parsed from that text is *ESE <n> / *SRE <n> with the same text.
C19_RetentionRoundTrip ==
  (vfn \in RegisterKinds \cup {"standard_event_status_enable_command",
                               "service_request_enable_command"}
     /\ IsU8Decimal(vin)) =>
    /\ vfn \in RegisterKinds =>
         /\ vout.ok /\ vout.kind = vfn
         /\ Register_value(vout.bits) = DigitsValue(vin)
         /\ \A i \in 0..7 : i \in vout.bits <=> (DigitsValue(vin) \div Pow2(i)) % 2 = 1
    /\ vfn = "standard_event_status_enable_command" =>
         vout.text = <<42, 69, 83, 69, 32>> \o vin \o <<10>>
    /\ vfn = "service_request_enable_command" =>
         vout.text = <<42, 83, 82, 69, 32>> \o vin \o <<10>>

\* "64", bit 6, which ServiceRequestEnable gives no name, parsed and sent
\* back as "*SRE 64\n".
C19_Witness ==
  /\ vfn = "service_request_enable_command"
  /\ vin = <<54, 52>>
  /\ vout.text = <<42, 83, 82, 69, 32, 54, 52, 10>>

\* The number of parts a text splits into on ','.
PartCount(t) == 1 + Cardinality({ i \in 1..Len(t) : t[i] = 44 })

\* C20: Identification parsing succeeds exactly when the response, its
\* surrounding whitespace removed, has 4 parts separated by ',': the parts,
\* none holding a ',', are manufacturer, model, serial and firmware in that
\* order; with any other number of parts it fails with IdentityParse
\* carrying the response as it came.
C20_IdentificationParts ==
  vfn = "Identification" =>
    LET t == Stripped(vin)
    IN  IF PartCount(t) = 4
          THEN /\ vout.ok /\ vout.kind = "Identification"
               /\ Len(vout.parts) = 4
               /\ \A k \in 1..4 : \A i \in 1..Len(vout.parts[k]) : vout.parts[k][i] # 44
               /\ vout.parts[1] \o <<44>> \o vout.parts[2] \o <<44>> \o vout.parts[3]
                    \o <<44>> \o vout.parts[4] = t
        ELSE vout = PErr("IdentityParse", vin)

\* "A, ,AA,": manufacturer "A", model " ", serial "AA" and an empty firmware.
C20_Witness ==
  /\ vfn = "Identification"
  /\ vin = <<65, 44, 32, 44, 65, 65, 44>>
  /\ vout = PIdent(<< <<65>>, <<32>>, <<65, 65>>, <<>> >>)

\* The name pushed for the buffer `desc` is the text of the bytes before its
\* first null byte: those bytes themselves when they are UTF-8, and else a
\* well-formed text that differs from them.
DecodedFrom(name, desc) ==
  /\ HasNull(desc)
  /\ IF Utf8Valid(NameIn(desc)) THEN name = NameIn(desc)
     ELSE Utf8Valid(name) /\ name # NameIn(desc)

\* C21: every name find_resources has pushed, and every name it returns, is
\* decoded from the bytes before the first null byte of the buffer its call
\* left; when a call with a completion code leaves a buffer without null
\* byte, that call is the last one of find_resources and the result is
\* Err(InvalidNullString), with none of the names pushed before; the only
\* other InvalidNullString is that of an expression with a null byte, which
\* comes before any call.
C21_NullTerminated ==
  /\ \A k \in 1..Len(resources) : DecodedFrom(resources[k], fcalls[k].desc)
  /\ fpc = "done" =>
       /\ fresult.ok =>
            /\ Len(fresult.val) = IF fcount < 1 THEN 0 ELSE Len(fcalls)
            /\ \A k \in 1..Len(fresult.val) : DecodedFrom(fresult.val[k], fcalls[k].desc)
       /\ \A k \in 1..Len(fcalls) :
            (fcount >= 1 /\ fcalls[k].status \in CompletionCodes /\ ~HasNull(fcalls[k].desc)) =>
              /\ k = Len(fcalls)
              /\ fresult = Err("InvalidNullString", <<>>, 0, 0, "")
       /\ fresult.err = "InvalidNullString" =>
            IF HasNull(fexpr) THEN fcalls = <<>>
            ELSE /\ ~HasNull(fcalls[Len(fcalls)].desc)
                 /\ Len(resources) = Len(fcalls) - 1

\* "A" found, then a find-next description that fills the buffer: the call
\* fails and "A" is not returned, the third resource never asked for.
C21_Witness ==
  /\ fpc = "done"
  /\ fcount = 3
  /\ Len(fcalls) = 2
  /\ Len(fcalls[2].desc) = 256
  /\ \A i \in 1..256 : fcalls[2].desc[i] = 67
  /\ resources = << <<65>> >>
  /\ fresult = Err("InvalidNullString", <<>>, 0, 0, "")


\* The Timeout is a Custom duration of more than 0xFFFFFFFF milliseconds.
OutOfRange(t) == t.kind = "Custom" /\ ~FitsU32(t.d)

\* InvalidTimeout(d) of the duration of t.
InvalidTimeoutOf(t) == Err("InvalidTimeout", <<t.d.secs, t.d.nanos>>, 0, 0, "")

\* C22: a Timeout that has no wire form is rejected before the transport is
\* touched.  set_timeout given a Custom duration out of range returns
\* InvalidTimeout(d), has made no transport call, and the session's timeout
\* attribute is what it was before; the attribute differs from before only
\* when viSetAttribute was called with the new value.  open_session given
\* such a duration has not invoked viOpen, no handle beyond the manager's
\* was stored and no Session is owned; it returns InvalidTimeout(d) for a
\* name CString::new accepts (for a name with a null byte the earlier check
\* of the name answers with InvalidResourceName).
C22_RejectedBeforeTransport ==
  /\ (op = "set_timeout" /\ pc = "done") =>
       /\ OutOfRange(tmoArg) =>
            /\ result = InvalidTimeoutOf(tmoArg)
            /\ calls = <<>>
            /\ tmoAttr = tmoBefore
       /\ tmoAttr # tmoBefore =>
            /\ Len(calls) = 1
            /\ calls[1].fn = "viSetAttribute"
            /\ calls[1].arg = tmoAttr
            /\ ~OutOfRange(tmoArg)
  /\ (sess[1].state # "none" /\ OutOfRange(openArgs.timeout)) =>
       /\ ~OpenCalled
       /\ Len(opens) = 1
       /\ sess[1] = [state |-> "failed", value |-> 0]
       /\ tmoAttr = ViTmoDefault
       /\ lifeResult = IF HasNull(openArgs.name)
                         THEN Err("InvalidResourceName", <<>>, 0, 0, "")
                       ELSE InvalidTimeoutOf(openArgs.timeout)

\* set_timeout(Custom(2^32 ms)) on a session whose timeout an earlier call
\* had set to 1500 ms: the attribute is still 1500.
C22_Witness ==
  /\ op = "set_timeout"
  /\ pc = "done"
  /\ tmoArg = [kind |-> "Custom", d |-> [secs |-> 4294967, nanos |-> 296000000]]
  /\ result.err = "InvalidTimeout"
  /\ tmoAttr = <<0, 1500>>
  /\ tmoBefore = <<0, 1500>>

\* open_session("A", Custom(2^32 ms)): InvalidTimeout and no viOpen.
C22_WitnessOpen ==
  /\ sess[1].state = "failed"
  /\ openArgs.name = <<65>>
  /\ openArgs.timeout = [kind |-> "Custom", d |-> [secs |-> 4294967, nanos |-> 296000000]]
  /\ lifeResult.err = "InvalidTimeout"
  /\ ~OpenCalled


\* C23: the named FlushMode flags have pairwise distinct masks: the mode
\* value flush has passed to viFlush is the value of the set of flags it was
\* given and of no other set of named flags, so that IO_OUTPUT_BUFFER and
\* IO_OUTPUT_BUFFER_DISCARD reach the transport as different values.
C23_DistinctModes ==
  (op = "flush" /\ pc = "done") =>
    /\ calls[1].fn = "viFlush"
    /\ \A g \in FlushModeSets : g # flushArg => FlushMode_bits(g) # calls[1].arg

\* C24: every find list find_resources acquired is closed when it returns:
\* no find list is open between two calls or at a return, and a call whose
\* viFindRsrc handed out a list has made exactly one viClose, on every path.
C24_FindListClosed ==
  /\ fpc \in {"idle", "done"} => flists = 0
  /\ fpc = "done" =>
       Cardinality({ k \in 1..Len(fcalls) : fcalls[k].fn = "viClose" })
         = IF fcalls # <<>> /\ fcalls[1].status >= 0 THEN 1 ELSE 0

\* What the code does instead: the number of open find lists is the number
\* of find_resources calls whose viFindRsrc answered without error code, and
\* find_resources calls nothing but viFindRsrc and viFindNext.
FindListsKept ==
  /\ \A k \in 1..Len(fcalls) : fcalls[k].fn \in {"viFindRsrc", "viFindNext"}
  /\ fpc = "idle" => flists \in 0..MaxLists
  /\ (fcalls # <<>> /\ fcalls[1].status >= 0) => flists >= 1
  /\ (fpc = "done" /\ fcalls = <<>>) => HasNull(fexpr)

====
